---- MODULE Spec2Model ----
(***************************************************************************)
(* Model of the MMM-SteamFriends node helper (node_helper.js): the poll    *)
(* scheduler, the fetch cycle with its change gate, and the persistent     *)
(* caches.  Node runs the helper on one event loop: every action below is  *)
(* one run-to-completion segment of a handler, from one await to the next. *)
(* A continuation attached to an already settled promise (what follows     *)
(* `await this.fetchFriends()`) is a microtask: it is queued in `micro`    *)
(* and runs before any other event is taken.                               *)
(***************************************************************************)
EXTENDS Integers, Sequences, FiniteSets, TLC

(***************************************************************************)
(* Program constants                                                       *)
(***************************************************************************)
MAX_CONSECUTIVE_ERRORS == 5
FALLBACK_POLL_INTERVAL == 300000
HOT_INTERVAL == 30000
COLD_INTERVAL == 300000
CHANGE_WINDOW == 300000
BASE_INTERVAL == 60000
MIN_UPDATE_INTERVAL == 10000
MAX_FRIENDS_LIMIT == 250
MAX_CACHE_SIZE == 1000
MAX_FAILURES == 3
\* persistIntervalMs = 5 * 60 * 1000
persistIntervalMs == 300000
RATE_LIMIT_BACKOFF_MS == 60000
SCORE_CONCURRENT_REQUESTS == 5
PLAYTIME_CONCURRENT_REQUESTS == 3
\* the ttl of the playtime cache (24 hours), ms
PLAYTIME_TTL_MS == 86400000
DEFAULT_MIN_REVIEWS == 50
DEFAULT_REFRESH_DAYS == 7
\* the reviewCount above which a stale entry is kept for 30 days
POPULAR_REVIEWS == 1000
\* 30 * 24 * 60 * 60, the 30 days of enrichWithScores in seconds
POPULAR_TTL_SECONDS == 2592000

(***************************************************************************)
(* Bounds of the model                                                     *)
(***************************************************************************)
\* the clock advances in steps of TickMs milliseconds, MaxTicks times
TickMs == 60000
MaxTicks == 5
\* failing responses are drawn only while errorCount is below this cap
MaxErrorCount == 5
\* responses that change the fingerprint are drawn only below this cap
MaxChanges == 2
\* file operations fail only while consecutiveFailures is below this cap
MaxSaveFailures == 3
\* in the enrichment the clock advances by the rate-limit cooldown at most
\* MaxCooldownTicks times in a row and by the cache ttl at most MaxTtlTicks times
MaxCooldownTicks == 1
MaxTtlTicks == 1
\* in the enrichment a friend-list request fails only while errorCount is
\* below this cap
MaxScoreErrors == 1
\* over restarts of the helper set() is called at most MaxSetCalls times and
\* the clock advances by single milliseconds at most MaxStoreMs times in a row
MaxSetCalls == 3
MaxStoreMs == 2
\* the friend lists that are sorted have at most MaxSortLen records
MaxSortLen == 3
\* the list whose enrichment runs in batches has MaxPlaying friends that each
\* play an activity of their own, and one more friend
MaxPlaying == 7

VARIABLES
  now,              \* Date.now()
  config,           \* this.config
  allowlistSet,     \* this.allowlistSet (lazily built, memoised)
  pollInterval,     \* this.pollInterval: id of the stored timer handle
  timers,           \* timers armed in the event loop and not yet fired
  lastFriendsHash,  \* this.lastFriendsHash
  errorCount,       \* this.errorCount
  fetchInProgress,  \* this.fetchInProgress
  pollState,        \* this.pollState
  cycles,           \* fetchFriends invocations suspended at an await
  micro,            \* continuations waiting in the microtask queue
  sent,             \* notifications sent by the latest step
  lastPublished,    \* payload of the latest FRIENDS_UPDATE
  last,             \* outcome and final list of the latest completed cycle
  suspended,        \* SUSPEND is the latest of INIT, SUSPEND, RESUME received
  cache,            \* scoresCache.cache: the entries in insertion order
  dirty,            \* scoresCache.dirty
  lastPersist,      \* scoresCache.lastPersist
  consecutiveFailures,  \* scoresCache.consecutiveFailures
  saves,            \* the save() invocations, by caller
  tempFile,         \* the file at cachePath + ".tmp"
  durableFile,      \* the file at cachePath
  lastSaved,        \* what the latest successful save() serialised
  stopCalled,       \* stop() has been called
  scoreRateLimitBackoff,  \* this.scoreRateLimitBackoff
  enrich,           \* the enrichWithScores call of the cycle in flight
  playtimeCache,    \* this.playtimeCache: the object and its Map
  playtime,         \* the enrichWithPlaytime call of the cycle in flight
  setCalls,         \* how many times set() of the score cache was called
  loading           \* the load() the INIT handler awaits

schedVars == <<config, allowlistSet, pollInterval, timers, lastFriendsHash,
               errorCount, fetchInProgress, pollState, cycles,
               lastPublished, last, suspended>>

cacheVars == <<cache, dirty, lastPersist, consecutiveFailures, saves,
               tempFile, durableFile, lastSaved, stopCalled>>

playVars == <<playtimeCache, playtime, setCalls, loading>>

scoreVars == <<scoreRateLimitBackoff, enrich, playVars>>

vars == <<now, micro, sent, schedVars, cacheVars, scoreVars>>

(***************************************************************************)
(* Values                                                                  *)
(***************************************************************************)
Null == "null"
NoTimer == 0
NoGame == "nogame"
\* an absent numeric property (totalPlaytime, gameScore) of a friend record
Undefined == -1
\* this.config before the first accepted INIT
NullConfig == [null |-> TRUE]
\* this.lastFriendsHash before the first published list
NullHash == <<"null">>
\* nothing published yet
NoSnapshot == [published |-> FALSE, list |-> <<>>, at |-> 0]
\* this.allowlistSet before it is built
NoAllowlistSet == [built |-> FALSE, ids |-> {}]

\* the outcome of a completed cycle
Outcome(outcome, list) == [outcome |-> outcome, list |-> list]

\* a path at which no file exists
NoFile == [exists |-> FALSE, complete |-> FALSE, data |-> {}]
\* no save() has succeeded yet
NoData == {<<"nodata">>}
\* the callers of save(): maybePersist at the end of an enrichment of the
\* running fetch cycle, and stop()
Callers == {"cycle", "stop"}
\* a caller that is not inside save()
IdleSave == [pc |-> "idle", data |-> {}, fd |-> "none"]
\* no enrichWithScores call is running
NoEnrich == [pc |-> "idle", friends |-> <<>>, queue |-> <<>>, lookups |-> <<>>]
\* this.playtimeCache = null
NoPlaytimeCache == [created |-> FALSE, cache |-> <<>>, dirty |-> FALSE,
                    lastPersist |-> 0]
\* no load() is waiting for readFile
NoLoad == "idle"
\* no enrichWithPlaytime call is running
NoPlaytime == [pc |-> "idle", friends |-> <<>>, queue |-> <<>>, lookups |-> <<>>]
\* activity ids the friends play
GameIds == {"440", "570"}

\* process.env.STEAM_API_KEY of the modelled deployment: not set
EnvSteamApiKey == ""

\* steam ids that match /^\d{17}$/
ValidSteamIds == {"76561198000000001"}

\* the module's default configuration with credentials filled in
CfgDefault ==
  [setup |-> FALSE, steamId |-> "76561198000000001", steamApiKey |-> "key",
   updateInterval |-> 60000, maxFriends |-> 50, friendAllowlist |-> <<>>,
   sortFriends |-> "alphabetic", avatarSize |-> "medium",
   gameScore |-> [enabled |-> FALSE, high |-> 80, mid |-> 50, low |-> 0,
                  refreshDays |-> 7, minReviews |-> 50]]

\* the default configuration with the review scores switched on
CfgScores == [CfgDefault EXCEPT !.gameScore.enabled = TRUE]

\* a configuration that fails validation (steamId is not 17 digits)
CfgBadId == [CfgDefault EXCEPT !.steamId = "1234"]

\* a configuration that fails validation (updateInterval below 10000)
CfgFast == [CfgDefault EXCEPT !.updateInterval = 5000]

\* setup mode without credentials
CfgSetup == [CfgDefault EXCEPT !.setup = TRUE, !.steamId = "", !.steamApiKey = ""]

\* the INIT payloads the display sends
InitPayloads == {CfgDefault, CfgBadId, CfgFast, CfgSetup}

\* players as GetPlayerSummaries returns them
PlayerA == [steamid |-> "A", personaname |-> "alice", personastate |-> 0,
            gameid |-> NoGame, gameextrainfo |-> "", lastlogoff |-> 100]
PlayerB == [steamid |-> "B", personaname |-> "bob", personastate |-> 1,
            gameid |-> NoGame, gameextrainfo |-> "", lastlogoff |-> 200]
PlayerBInGame == [PlayerB EXCEPT !.gameid = "440", !.gameextrainfo = "tf2"]

\* GetFriendList results: the friend ids of the account
FriendListResponses == {<<>>, <<"A", "B">>}

\* GetPlayerSummaries results for the ids <<"A", "B">>
SummariesResponses ==
  {<<PlayerA, PlayerB>>, <<PlayerB, PlayerA>>, <<PlayerA, PlayerBInGame>>}

\* collation rank of the display names (String.prototype.localeCompare)
NameRank == [alice |-> 1, bob |-> 2, dan |-> 3, eve |-> 4]

(***************************************************************************)
(* Pure functions                                                          *)
(***************************************************************************)
Range(s) == {s[i] : i \in 1..Len(s)}

localeCompare(a, b) ==
  IF NameRank[a] < NameRank[b] THEN -1
  ELSE IF NameRank[a] > NameRank[b] THEN 1 ELSE 0

mapPersonaState(state) ==
  CASE state = 1 -> "Online"
    [] state = 2 -> "Busy"
    [] state = 3 -> "Away"
    [] state = 4 -> "Snooze"
    [] state = 5 -> "Looking to trade"
    [] state = 6 -> "Looking to play"
    [] OTHER -> "Offline"

statusOrder(status) ==
  CASE status = "Online" -> 0
    [] status = "Busy" -> 1
    [] status = "Away" -> 2
    [] status = "Snooze" -> 3
    [] status = "Looking to trade" -> 4
    [] status = "Looking to play" -> 5
    [] status = "Offline" -> 6
    [] OTHER -> 99

\* the record built for each player of a summaries batch
toFriend(p) ==
  [id |-> p.steamid, name |-> p.personaname,
   status |-> mapPersonaState(p.personastate),
   inGame |-> p.gameid # NoGame, game |-> p.gameextrainfo,
   gameId |-> IF p.gameid # NoGame THEN p.gameid ELSE Null,
   lastLogOff |-> p.lastlogoff,
   totalPlaytime |-> Undefined, gameScore |-> Undefined]

mapPlayers(players) == [i \in 1..Len(players) |-> toFriend(players[i])]

\* x || 0 of a numeric property that can be absent
orZero(x) == IF x = Undefined THEN 0 ELSE x

\* a sortByConfig that stops at the secondary key
sortByConfig_NoTieBreak(cfg, a, b) ==
  CASE cfg.sortFriends = "recentActivity" ->
         orZero(b.lastLogOff) - orZero(a.lastLogOff)
    [] cfg.sortFriends = "totalPlaytime" ->
         orZero(b.totalPlaytime) - orZero(a.totalPlaytime)
    [] OTHER -> localeCompare(a.name, b.name)

sortByConfig(cfg, a, b) ==
  CASE cfg.sortFriends = "recentActivity" ->
         IF orZero(a.lastLogOff) # orZero(b.lastLogOff)
         THEN orZero(b.lastLogOff) - orZero(a.lastLogOff)
         ELSE localeCompare(a.name, b.name)
    [] cfg.sortFriends = "totalPlaytime" ->
         IF orZero(a.totalPlaytime) # orZero(b.totalPlaytime)
         THEN orZero(b.totalPlaytime) - orZero(a.totalPlaytime)
         ELSE localeCompare(a.name, b.name)
    [] OTHER -> localeCompare(a.name, b.name)

\* the comparator handed to allFriends.sort
compareFriends(cfg, a, b) ==
  LET aInGame == IF a.inGame THEN 1 ELSE 0
      bInGame == IF b.inGame THEN 1 ELSE 0
  IN  IF aInGame # bInGame THEN bInGame - aInGame
      ELSE IF statusOrder(a.status) # statusOrder(b.status)
           THEN statusOrder(a.status) - statusOrder(b.status)
           ELSE sortByConfig(cfg, a, b)

\* x inserted into the sorted sequence s behind every element it does not precede
RECURSIVE insertSorted(_, _, _)
insertSorted(cfg, s, x) ==
  IF s = <<>> THEN <<x>>
  ELSE IF compareFriends(cfg, x, s[Len(s)]) < 0
       THEN Append(insertSorted(cfg, SubSeq(s, 1, Len(s) - 1), x), s[Len(s)])
       ELSE Append(s, x)

\* Array.prototype.sort: a stable sort under the comparator
RECURSIVE sortFriends(_, _)
sortFriends(cfg, list) ==
  IF list = <<>> THEN <<>>
  ELSE insertSorted(cfg, sortFriends(cfg, SubSeq(list, 1, Len(list) - 1)),
                    list[Len(list)])

\* JSON.stringify of one friend record: the properties in insertion order,
\* a property whose value is undefined is left out
stringifyFriend(f) ==
  LET fixed == <<<<"id", f.id>>, <<"name", f.name>>, <<"status", f.status>>,
                 <<"inGame", f.inGame>>, <<"game", f.game>>,
                 <<"gameId", f.gameId>>>>
      optional == <<<<"lastLogOff", f.lastLogOff>>,
                    <<"totalPlaytime", f.totalPlaytime>>,
                    <<"gameScore", f.gameScore>>>>
  IN  fixed \o SelectSeq(optional, LAMBDA kv : kv[2] # Undefined)

\* md5 over JSON.stringify(data); the digest is taken to be collision free,
\* so it is represented by the text it digests
hashData(data) == <<"md5", [i \in 1..Len(data) |-> stringifyFriend(data[i])]>>

\* config.steamApiKey || process.env.STEAM_API_KEY
apiKey(cfg) == IF cfg.steamApiKey # "" THEN cfg.steamApiKey ELSE EnvSteamApiKey

\* validateConfig: TRUE when no error is thrown
validateConfig(cfg) ==
  \/ cfg.setup
  \/ /\ cfg.steamId \in ValidSteamIds
     /\ ~(cfg.updateInterval < MIN_UPDATE_INTERVAL)
     /\ ~(cfg.maxFriends # 0 /\ (cfg.maxFriends < 1 \/ cfg.maxFriends > MAX_FRIENDS_LIMIT))
     /\ ~(/\ cfg.gameScore.enabled
          /\ cfg.gameScore.high # 0 /\ cfg.gameScore.mid # 0 /\ cfg.gameScore.low # 0
          /\ ~(cfg.gameScore.high > cfg.gameScore.mid /\ cfg.gameScore.mid > cfg.gameScore.low))
     /\ cfg.avatarSize \in {"", "small", "medium", "full"}

\* validateConfig without the check of updateInterval
validationError_AnyInterval(cfg) ==
  IF cfg.setup THEN ""
  ELSE IF cfg.steamId \notin ValidSteamIds
  THEN "Invalid steamId format. Must be 17-digit Steam ID."
  ELSE IF cfg.maxFriends # 0 /\ (cfg.maxFriends < 1 \/ cfg.maxFriends > MAX_FRIENDS_LIMIT)
  THEN "maxFriends must be between 1 and 250"
  ELSE IF /\ cfg.gameScore.enabled
          /\ cfg.gameScore.high # 0 /\ cfg.gameScore.mid # 0 /\ cfg.gameScore.low # 0
          /\ ~(cfg.gameScore.high > cfg.gameScore.mid /\ cfg.gameScore.mid > cfg.gameScore.low)
  THEN "gameScore thresholds must be: high > mid > low"
  ELSE IF cfg.avatarSize \notin {"", "small", "medium", "full"}
  THEN "Invalid avatarSize"
  ELSE ""

\* the message of the error validateConfig throws, "" when it throws none
validationError(cfg) ==
  IF cfg.setup THEN ""
  ELSE IF cfg.steamId \notin ValidSteamIds
  THEN "Invalid steamId format. Must be 17-digit Steam ID."
  ELSE IF cfg.updateInterval < MIN_UPDATE_INTERVAL
  THEN "updateInterval must be >= 10000ms to avoid API abuse"
  ELSE IF cfg.maxFriends # 0 /\ (cfg.maxFriends < 1 \/ cfg.maxFriends > MAX_FRIENDS_LIMIT)
  THEN "maxFriends must be between 1 and 250"
  ELSE IF /\ cfg.gameScore.enabled
          /\ cfg.gameScore.high # 0 /\ cfg.gameScore.mid # 0 /\ cfg.gameScore.low # 0
          /\ ~(cfg.gameScore.high > cfg.gameScore.mid /\ cfg.gameScore.mid > cfg.gameScore.low)
  THEN "gameScore thresholds must be: high > mid > low"
  ELSE IF cfg.avatarSize \notin {"", "small", "medium", "full"}
  THEN "Invalid avatarSize"
  ELSE ""

(***************************************************************************)
(* Timers                                                                  *)
(***************************************************************************)
timerIds(tm) == {t.id : t \in tm}

newTimerId(tm) ==
  CHOOSE i \in 1..(Cardinality(tm) + 1) :
    i \notin timerIds(tm) /\ \A j \in 1..(i - 1) : j \in timerIds(tm)

\* a clearTimeout that cancels nothing
clearTimeout_Keeps(tm, handle) == tm

clearTimeout(tm, handle) == {t \in tm : t.id # handle}

setTimeout(tm, cb, delay) ==
  tm \cup {[id |-> newTimerId(tm), cb |-> cb, set |-> now, delay |-> delay]}

(***************************************************************************)
(* start()                                                                 *)
(***************************************************************************)
SchedInit(cfg) ==
  /\ now = 0
  /\ config = cfg
  /\ allowlistSet = NoAllowlistSet
  /\ pollInterval = NoTimer
  /\ timers = {}
  /\ lastFriendsHash = NullHash
  /\ errorCount = 0
  /\ fetchInProgress = FALSE
  /\ pollState = [baseInterval |-> BASE_INTERVAL, currentInterval |-> BASE_INTERVAL,
                  lastChangeTime |-> 0, changeCount |-> 0]
  /\ cycles = <<>>
  /\ micro = <<>>
  /\ sent = <<>>
  /\ lastPublished = NoSnapshot
  /\ last = Outcome("none", <<>>)
  /\ suspended = FALSE

\* new ScoresCache(cachePath, ttlDays), no file at cachePath
CacheInit ==
  /\ cache = <<>>
  /\ dirty = FALSE
  /\ lastPersist = 0
  /\ consecutiveFailures = 0
  /\ saves = [caller \in Callers |-> IdleSave]
  /\ tempFile = NoFile
  /\ durableFile = NoFile
  /\ lastSaved = NoData
  /\ stopCalled = FALSE

\* start(): this.scoreRateLimitBackoff = 0, this.playtimeCache = null, no
\* cycle is enriching
ScoreInit ==
  /\ scoreRateLimitBackoff = 0
  /\ enrich = NoEnrich
  /\ playtimeCache = NoPlaytimeCache
  /\ playtime = NoPlaytime
  /\ setCalls = 0
  /\ loading = NoLoad

Init == SchedInit(NullConfig) /\ CacheInit /\ ScoreInit

(***************************************************************************)
(* Building blocks of the handlers                                         *)
(***************************************************************************)
Notification(type, payload) == [type |-> type, payload |-> payload]

\* a fetchFriends whose callers never go on to schedulePoll
continuation_Never(then) == <<>>

\* what the caller of fetchFriends does once the returned promise settles:
\* `await this.fetchFriends(); this.schedulePoll()` and
\* `this.fetchFriends().then(() => this.schedulePoll())` queue schedulePoll,
\* the callback of the fallback timer queues nothing
continuation(then) == IF then = "schedulePoll" THEN <<"schedulePoll">> ELSE <<>>


\* fetchFriends without its re-entry guard
fetchGuard_Absent == FALSE

\* the re-entry guard at the head of fetchFriends
fetchGuard == fetchInProgress

\* schedulePoll comparing with <= instead of <
selectInterval_Inclusive(timeSinceChange) ==
  IF timeSinceChange <= CHANGE_WINDOW THEN HOT_INTERVAL ELSE COLD_INTERVAL

\* the interval schedulePoll selects
selectInterval(timeSinceChange) ==
  IF timeSinceChange < CHANGE_WINDOW THEN HOT_INTERVAL ELSE COLD_INTERVAL

\* the catch and finally blocks of fetchFriends, entered with the timers tm
\* and the stored handle pi
catchBlock(tm, pi, then, message) ==
  LET count == errorCount + 1
      rearm == count >= MAX_CONSECUTIVE_ERRORS /\ pi # NoTimer
      cleared == clearTimeout(tm, pi)
  IN  /\ errorCount' = count
      /\ timers' = IF rearm
                   THEN setTimeout(cleared, "fallback", FALLBACK_POLL_INTERVAL)
                   ELSE tm
      /\ pollInterval' = IF rearm THEN newTimerId(cleared) ELSE pi
      /\ sent' = <<Notification("ERROR", [context |-> "fetchFriends",
                                          message |-> message, timestamp |-> now])>>
      /\ fetchInProgress' = FALSE
      /\ micro' = continuation(then)
      /\ last' = Outcome("error", <<>>)
      /\ UNCHANGED <<lastFriendsHash, pollState, lastPublished>>

\* fetchFriends from its call to its first await, called with the
\* configuration cfg, the timers tm and the stored handle pi
fetchFriends(cfg, then, tm, pi) ==
  IF fetchGuard
  THEN /\ micro' = continuation(then)
       /\ timers' = tm
       /\ pollInterval' = pi
       /\ sent' = <<>>
       /\ UNCHANGED <<fetchInProgress, cycles, errorCount, lastFriendsHash,
                      pollState, lastPublished, last>>
  ELSE IF apiKey(cfg) = ""
       THEN /\ errorCount < MaxErrorCount
            /\ catchBlock(tm, pi, then, "Steam API key not configured")
            /\ UNCHANGED cycles
       ELSE /\ fetchInProgress' = TRUE
            /\ cycles' = Append(cycles, [pc |-> "friendList", then |-> then,
                                         key |-> apiKey(cfg), friendIds |-> <<>>])
            /\ micro' = <<>>
            /\ timers' = tm
            /\ pollInterval' = pi
            /\ sent' = <<>>
            /\ UNCHANGED <<errorCount, lastFriendsHash, pollState,
                           lastPublished, last>>

removeAt(s, i) == SubSeq(s, 1, i - 1) \o SubSeq(s, i + 1, Len(s))

\* the tail of fetchFriends once the summaries are in: sort, fingerprint,
\* change gate, reset of the failure counter, finally
completeCycle(i, allFriends) ==
  LET sorted == sortFriends(config, allFriends)
      currentHash == hashData(sorted)
      changed == currentHash # lastFriendsHash
  IN  /\ pollState' = IF changed
                      THEN [pollState EXCEPT !.changeCount = @ + 1,
                                             !.lastChangeTime = now]
                      ELSE pollState
      /\ lastFriendsHash' = IF changed THEN currentHash ELSE lastFriendsHash
      /\ sent' = IF changed THEN <<Notification("FRIENDS_UPDATE", sorted)>> ELSE <<>>
      /\ lastPublished' = IF changed THEN [published |-> TRUE, list |-> sorted, at |-> now]
                          ELSE lastPublished
      /\ errorCount' = 0
      /\ fetchInProgress' = FALSE
      /\ cycles' = removeAt(cycles, i)
      /\ micro' = continuation(cycles[i].then)
      /\ last' = Outcome("ok", sorted)
      /\ UNCHANGED <<timers, pollInterval>>

(***************************************************************************)
(* Actions                                                                 *)
(***************************************************************************)
\* time passes
Tick ==
  /\ UNCHANGED <<cacheVars, scoreVars>>
  /\ micro = <<>>
  /\ now + TickMs <= MaxTicks * TickMs
  /\ now' = now + TickMs
  /\ sent' = <<>>
  /\ UNCHANGED <<config, allowlistSet, pollInterval, timers, lastFriendsHash,
                 errorCount, fetchInProgress, pollState, cycles, micro,
                 lastPublished, last, suspended>>

\* socketNotificationReceived("INIT", payload), for payloads that enable
\* neither enrichment
ReceiveInit(payload) ==
  /\ UNCHANGED <<cacheVars, scoreVars>>
  /\ micro = <<>>
  /\ ~payload.gameScore.enabled /\ payload.sortFriends # "totalPlaytime"
  /\ IF validationError(payload) # ""
     THEN /\ sent' = <<Notification("CONFIG_ERROR", validationError(payload))>>
          /\ timers' = clearTimeout(timers, pollInterval)
          /\ pollInterval' = NoTimer
          /\ UNCHANGED <<config, fetchInProgress, cycles, errorCount,
                         lastFriendsHash, pollState, lastPublished, last, micro>>
     ELSE /\ config' = payload
          /\ IF payload.setup /\ (payload.steamApiKey = "" \/ payload.steamId = "")
             THEN /\ timers' = clearTimeout(timers, pollInterval)
                  /\ pollInterval' = NoTimer
                  /\ sent' = <<>>
                  /\ UNCHANGED <<fetchInProgress, cycles, errorCount,
                                 lastFriendsHash, pollState, lastPublished,
                                 last, micro>>
             ELSE fetchFriends(payload, "schedulePoll",
                               clearTimeout(timers, pollInterval), NoTimer)
  /\ suspended' = FALSE
  /\ UNCHANGED <<now, allowlistSet>>

\* SUSPEND resetting the failure counter
ReceiveSuspend_Resets ==
  /\ UNCHANGED <<cacheVars, scoreVars>>
  /\ micro = <<>>
  /\ timers' = clearTimeout(timers, pollInterval)
  /\ pollInterval' = NoTimer
  /\ sent' = <<>>
  /\ suspended' = TRUE
  /\ errorCount' = 0
  /\ UNCHANGED <<now, config, allowlistSet, lastFriendsHash,
                 fetchInProgress, pollState, cycles, micro, lastPublished, last>>

\* socketNotificationReceived("SUSPEND")
ReceiveSuspend ==
  /\ UNCHANGED <<cacheVars, scoreVars>>
  /\ micro = <<>>
  /\ timers' = clearTimeout(timers, pollInterval)
  /\ pollInterval' = NoTimer
  /\ sent' = <<>>
  /\ suspended' = TRUE
  /\ UNCHANGED <<now, config, allowlistSet, lastFriendsHash, errorCount,
                 fetchInProgress, pollState, cycles, micro, lastPublished, last>>

\* RESUME fetching whenever a configuration is stored
resumeGuard_IgnoresTimer == config # NullConfig

\* the condition under which RESUME fetches: !this.pollInterval && this.config
resumeGuard == pollInterval = NoTimer /\ config # NullConfig

\* socketNotificationReceived("RESUME")
ReceiveResume ==
  /\ UNCHANGED <<cacheVars, scoreVars>>
  /\ micro = <<>>
  /\ IF resumeGuard
     THEN fetchFriends(config, "schedulePoll", timers, pollInterval)
     ELSE /\ sent' = <<>>
          /\ UNCHANGED <<pollInterval, timers, fetchInProgress, cycles,
                         errorCount, lastFriendsHash, pollState, lastPublished,
                         last, micro>>
  /\ suspended' = FALSE
  /\ UNCHANGED <<now, config, allowlistSet>>

\* a timer armed by schedulePoll or by the catch block expires
TimerFires(t) ==
  /\ UNCHANGED <<cacheVars, scoreVars>>
  /\ micro = <<>>
  /\ t \in timers
  /\ now >= t.set + t.delay
  /\ fetchFriends(config, IF t.cb = "poll" THEN "schedulePoll" ELSE "none",
                  timers \ {t}, pollInterval)
  /\ UNCHANGED <<now, config, allowlistSet, suspended>>

\* schedulePoll, run as the continuation of a settled fetchFriends
SchedulePoll ==
  /\ UNCHANGED <<cacheVars, scoreVars>>
  /\ micro # <<>>
  /\ Head(micro) = "schedulePoll"
  /\ micro' = Tail(micro)
  /\ LET interval == selectInterval(now - pollState.lastChangeTime)
         cleared == clearTimeout(timers, pollInterval)
     IN  /\ pollState' = [pollState EXCEPT !.currentInterval = interval]
         /\ timers' = setTimeout(cleared, "poll", interval)
         /\ pollInterval' = newTimerId(cleared)
  /\ sent' = <<>>
  /\ UNCHANGED <<now, config, allowlistSet, lastFriendsHash, errorCount,
                 fetchInProgress, cycles, lastPublished, last, suspended>>

\* the GetFriendList request of cycle i fails
FriendListFails(i) ==
  /\ UNCHANGED <<cacheVars, scoreVars>>
  /\ micro = <<>>
  /\ i \in 1..Len(cycles)
  /\ cycles[i].pc = "friendList"
  /\ errorCount < MaxErrorCount
  /\ catchBlock(timers, pollInterval, cycles[i].then, "request failed")
  /\ cycles' = removeAt(cycles, i)
  /\ UNCHANGED <<now, config, allowlistSet, suspended>>

\* the GetFriendList request of cycle i answers with the friend ids
FriendListArrives(i, ids) ==
  /\ UNCHANGED <<cacheVars, scoreVars>>
  /\ micro = <<>>
  /\ i \in 1..Len(cycles)
  /\ cycles[i].pc = "friendList"
  /\ LET useAllowlist == Len(config.friendAllowlist) > 0
         allowSet == IF useAllowlist /\ ~allowlistSet.built
                     THEN [built |-> TRUE, ids |-> Range(config.friendAllowlist)]
                     ELSE allowlistSet
         friendIds == IF useAllowlist
                      THEN SelectSeq(ids, LAMBDA id : id \in allowSet.ids)
                      ELSE ids
     IN  /\ allowlistSet' = allowSet
         /\ IF Len(friendIds) = 0
            THEN /\ sent' = <<Notification("FRIENDS_UPDATE", <<>>)>>
                 /\ lastPublished' = [published |-> TRUE, list |-> <<>>, at |-> now]
                 /\ fetchInProgress' = FALSE
                 /\ cycles' = removeAt(cycles, i)
                 /\ micro' = continuation(cycles[i].then)
                 /\ last' = Outcome("ok", <<>>)
                 /\ UNCHANGED <<errorCount, lastFriendsHash, pollState>>
            ELSE /\ cycles' = [cycles EXCEPT ![i].pc = "summaries",
                                             ![i].friendIds = friendIds]
                 /\ sent' = <<>>
                 /\ UNCHANGED <<errorCount, lastFriendsHash, pollState,
                                fetchInProgress, micro, lastPublished, last>>
  /\ UNCHANGED <<now, config, pollInterval, timers, suspended>>

\* a GetPlayerSummaries request of cycle i fails: Promise.all rejects
SummariesFail(i) ==
  /\ UNCHANGED <<cacheVars, scoreVars>>
  /\ micro = <<>>
  /\ i \in 1..Len(cycles)
  /\ cycles[i].pc = "summaries"
  /\ errorCount < MaxErrorCount
  /\ catchBlock(timers, pollInterval, cycles[i].then, "request failed")
  /\ cycles' = removeAt(cycles, i)
  /\ UNCHANGED <<now, config, allowlistSet, suspended>>

\* every GetPlayerSummaries request of cycle i has answered
SummariesArrive(i, players) ==
  /\ UNCHANGED <<cacheVars, scoreVars>>
  /\ micro = <<>>
  /\ i \in 1..Len(cycles)
  /\ cycles[i].pc = "summaries"
  /\ ~config.gameScore.enabled
  /\ ~(config.sortFriends = "totalPlaytime" /\ playtimeCache.created)
  /\ {players[k].steamid : k \in 1..Len(players)} \subseteq Range(cycles[i].friendIds)
  /\ \/ pollState.changeCount < MaxChanges
     \/ hashData(sortFriends(config, mapPlayers(players))) = lastFriendsHash
  /\ completeCycle(i, mapPlayers(players))
  /\ UNCHANGED <<now, config, allowlistSet, suspended>>

Next ==
  \/ Tick
  \/ \E payload \in InitPayloads : ReceiveInit(payload)
  \/ ReceiveSuspend
  \/ ReceiveResume
  \/ \E t \in timers : TimerFires(t)
  \/ SchedulePoll
  \/ \E i \in 1..Len(cycles) : FriendListFails(i)
  \/ \E i \in 1..Len(cycles), ids \in FriendListResponses : FriendListArrives(i, ids)
  \/ \E i \in 1..Len(cycles) : SummariesFail(i)
  \/ \E i \in 1..Len(cycles), players \in SummariesResponses : SummariesArrive(i, players)

Spec == Init /\ [][Next]_vars

(***************************************************************************)
(* ScoresCache: set, maybePersist, save, and stop()                        *)
(* PlaytimeCache has the same save, maybePersist and eviction code.        *)
(*                                                                         *)
(* A file is what its path currently names.  writeFile opens the temporary *)
(* path (creating the file or truncating it to length 0), writes the text  *)
(* through the descriptor and closes it; rename makes the durable path     *)
(* name the file the temporary path named.  A descriptor keeps designating *)
(* the file it opened when that file is renamed or unlinked: fd records    *)
(* under which path the file written by a save() is found now.             *)
(***************************************************************************)
\* the activity ids "1", "2", ... that fill a cache up to its capacity
FillIds == {ToString(i) : i \in 1..(MAX_CACHE_SIZE + 2)}

\* the activity ids of the model: /^\d{1,10}$/ holds of each
ValidGameIds == GameIds \cup FillIds

\* isValidGameId
isValidGameId(gameId) == gameId \in ValidGameIds

\* Map.prototype.set followed by the eviction of the newest key
cacheSet_EvictsNewest(c, key, value) ==
  LET entry == [key |-> key, value |-> value]
      stored == IF \E i \in 1..Len(c) : c[i].key = key
                THEN [i \in 1..Len(c) |-> IF c[i].key = key THEN entry ELSE c[i]]
                ELSE Append(c, entry)
  IN  IF Len(stored) > MAX_CACHE_SIZE THEN SubSeq(stored, 1, Len(stored) - 1)
      ELSE stored

\* Map.prototype.set followed by the eviction of the oldest key
cacheSet(c, key, value) ==
  LET entry == [key |-> key, value |-> value]
      stored == IF \E i \in 1..Len(c) : c[i].key = key
                THEN [i \in 1..Len(c) |-> IF c[i].key = key THEN entry ELSE c[i]]
                ELSE Append(c, entry)
  IN  IF Len(stored) > MAX_CACHE_SIZE THEN Tail(stored) ELSE stored

\* JSON.stringify(Object.fromEntries(this.cache)): the properties of the object
serialize(c) == {<<c[i].key, c[i].value>> : i \in 1..Len(c)}

\* the text of a file after `data` was written at offset 0: text that was
\* longer than the new one keeps its tail
written(old, data) ==
  IF old.complete /\ Cardinality(old.data) > Cardinality(data)
  THEN [exists |-> TRUE, complete |-> FALSE, data |-> data]
  ELSE [exists |-> TRUE, complete |-> TRUE, data |-> data]

\* the helper process is alive: stop() has not returned yet
alive == ~stopCalled \/ saves["stop"].pc # "idle" \/ micro # <<>>

\* save() up to its first await: the dirty check, the serialisation and the
\* start of writeFile
beginSave == IF dirty THEN [pc |-> "open", data |-> serialize(cache), fd |-> "none"]
             ELSE IdleSave

\* what runs when save() returns to its caller: stop() goes on to clear the
\* cache, an enrichWithScores call that awaits maybePersist returns to
\* fetchFriends
afterSave(caller) ==
  IF caller = "stop" THEN <<"clearCache">>
  ELSE IF enrich.pc = "persist" THEN <<"enrichReturns">> ELSE <<>>

\* consecutiveFailures left as it is by the catch block
failuresAfterCatch_NotCounted == consecutiveFailures

\* consecutiveFailures after the catch block of save()
failuresAfterCatch == consecutiveFailures + 1

\* the catch block reporting every failure
cacheErrorDue_Always(failures) == TRUE

\* the catch block reports once the failure count has reached MAX_FAILURES
\* (global.moduleInstance is set by start())
cacheErrorDue(failures) == failures >= MAX_FAILURES

\* a maybePersist that saves a dirty cache whenever it is called
persistDue_AnyTime(isDirty, since, t) == isDirty

\* the condition of maybePersist
persistDue(isDirty, since, t) == isDirty /\ t - since >= persistIntervalMs

\* the clock advances by the persist interval
CacheTick ==
  /\ UNCHANGED scoreVars
  /\ micro = <<>>
  /\ alive
  /\ now + persistIntervalMs <= MaxTicks * TickMs
  /\ now' = now + persistIntervalMs
  /\ sent' = <<>>
  /\ UNCHANGED <<micro, schedVars, cacheVars>>

\* scoresCache.set(gameId, result), called by enrichWithScores for a fetched score
CacheSet(gameId, score) ==
  /\ UNCHANGED scoreVars
  /\ micro = <<>>
  /\ alive
  /\ saves["cycle"].pc = "idle"
  /\ IF isValidGameId(gameId)
     THEN /\ cache' = cacheSet(cache, gameId, [score |-> score, cachedAt |-> now])
          /\ dirty' = TRUE
     ELSE UNCHANGED <<cache, dirty>>
  /\ sent' = <<>>
  /\ UNCHANGED <<now, micro, schedVars, lastPersist, consecutiveFailures, saves,
                 tempFile, durableFile, lastSaved, stopCalled>>

\* scoresCache.maybePersist(), awaited at the end of enrichWithScores
MaybePersist ==
  /\ UNCHANGED scoreVars
  /\ micro = <<>>
  /\ alive
  /\ saves["cycle"].pc = "idle"
  /\ IF persistDue(dirty, lastPersist, now)
     THEN saves' = [saves EXCEPT !["cycle"] = beginSave]
     ELSE UNCHANGED saves
  /\ sent' = <<>>
  /\ UNCHANGED <<now, micro, schedVars, cache, dirty, lastPersist,
                 consecutiveFailures, tempFile, durableFile, lastSaved, stopCalled>>

\* stop(): the poll timer is cleared and the cache saved, then cleared
Stop ==
  /\ UNCHANGED scoreVars
  /\ micro = <<>>
  /\ ~stopCalled
  /\ stopCalled' = TRUE
  /\ timers' = clearTimeout(timers, pollInterval)
  /\ pollInterval' = NoTimer
  /\ saves' = [saves EXCEPT !["stop"] = beginSave]
  /\ micro' = IF dirty THEN <<>> ELSE afterSave("stop")
  /\ sent' = <<>>
  /\ UNCHANGED <<now, config, allowlistSet, lastFriendsHash, errorCount,
                 fetchInProgress, pollState, cycles, lastPublished, last,
                 suspended, cache, dirty, lastPersist, consecutiveFailures,
                 tempFile, durableFile, lastSaved>>

\* writeFile opens the temporary path: the file is created or truncated
SaveOpen(caller, ok) ==
  /\ UNCHANGED scoreVars
  /\ micro = <<>>
  /\ saves[caller].pc = "open"
  /\ ok \/ consecutiveFailures < MaxSaveFailures
  /\ IF ok
     THEN /\ tempFile' = [exists |-> TRUE, complete |-> FALSE, data |-> {}]
          /\ saves' = [saves EXCEPT ![caller].pc = "write", ![caller].fd = "temp"]
     ELSE /\ saves' = [saves EXCEPT ![caller].pc = "catch"]
          /\ UNCHANGED tempFile
  /\ sent' = <<>>
  /\ UNCHANGED <<now, micro, schedVars, cache, dirty, lastPersist,
                 consecutiveFailures, durableFile, lastSaved, stopCalled>>

\* writeFile writes the text through its descriptor and resolves, save()
\* goes on to rename; or the write fails and leaves the file as it is
SaveWrite(caller, ok) ==
  /\ UNCHANGED scoreVars
  /\ micro = <<>>
  /\ saves[caller].pc = "write"
  /\ ok \/ consecutiveFailures < MaxSaveFailures
  /\ IF ok
     THEN /\ tempFile' = IF saves[caller].fd = "temp"
                         THEN written(tempFile, saves[caller].data) ELSE tempFile
          /\ durableFile' = IF saves[caller].fd = "durable"
                            THEN written(durableFile, saves[caller].data)
                            ELSE durableFile
          /\ saves' = [saves EXCEPT ![caller].pc = "rename", ![caller].fd = "none"]
     ELSE /\ saves' = [saves EXCEPT ![caller].pc = "catch", ![caller].fd = "none"]
          /\ UNCHANGED <<tempFile, durableFile>>
  /\ sent' = <<>>
  /\ UNCHANGED <<now, micro, schedVars, cache, dirty, lastPersist,
                 consecutiveFailures, lastSaved, stopCalled>>

\* rename(tempPath, cachePath) takes effect, or fails (always when no file
\* is at the temporary path)
SaveRename(caller, ok) ==
  /\ UNCHANGED scoreVars
  /\ micro = <<>>
  /\ saves[caller].pc = "rename"
  /\ (ok /\ tempFile.exists) \/ consecutiveFailures < MaxSaveFailures
  /\ IF ok /\ tempFile.exists
     THEN /\ durableFile' = tempFile
          /\ tempFile' = NoFile
          /\ saves' = [c \in Callers |->
                         IF c = caller THEN [saves[c] EXCEPT !.pc = "renamed"]
                         ELSE IF saves[c].fd = "temp" THEN [saves[c] EXCEPT !.fd = "durable"]
                         ELSE IF saves[c].fd = "durable" THEN [saves[c] EXCEPT !.fd = "orphan"]
                         ELSE saves[c]]
     ELSE /\ saves' = [saves EXCEPT ![caller].pc = "catch"]
          /\ UNCHANGED <<tempFile, durableFile>>
  /\ sent' = <<>>
  /\ UNCHANGED <<now, micro, schedVars, cache, dirty, lastPersist,
                 consecutiveFailures, lastSaved, stopCalled>>

\* save() after the rename resolved: the bookkeeping of a successful save
SaveSucceeds(caller) ==
  /\ UNCHANGED scoreVars
  /\ micro = <<>>
  /\ saves[caller].pc = "renamed"
  /\ dirty' = FALSE
  /\ lastPersist' = now
  /\ consecutiveFailures' = 0
  /\ lastSaved' = saves[caller].data
  /\ saves' = [saves EXCEPT ![caller] = IdleSave]
  /\ micro' = afterSave(caller)
  /\ sent' = <<>>
  /\ UNCHANGED <<now, schedVars, cache, tempFile, durableFile, stopCalled>>

\* the catch block of save() up to its await of unlink
SaveCatch(caller) ==
  /\ UNCHANGED scoreVars
  /\ micro = <<>>
  /\ saves[caller].pc = "catch"
  /\ consecutiveFailures' = failuresAfterCatch
  /\ sent' = IF cacheErrorDue(consecutiveFailures')
             THEN <<Notification("CACHE_ERROR", [failures |-> consecutiveFailures'])>>
             ELSE <<>>
  /\ IF tempFile.exists
     THEN /\ saves' = [saves EXCEPT ![caller].pc = "unlink"]
          /\ UNCHANGED micro
     ELSE /\ saves' = [saves EXCEPT ![caller] = IdleSave]
          /\ micro' = afterSave(caller)
  /\ UNCHANGED <<now, schedVars, cache, dirty, lastPersist, tempFile,
                 durableFile, lastSaved, stopCalled>>

\* unlink(tempPath) takes effect or fails, the error is swallowed; save() returns
SaveUnlink(caller, ok) ==
  /\ UNCHANGED scoreVars
  /\ micro = <<>>
  /\ saves[caller].pc = "unlink"
  /\ IF ok /\ tempFile.exists
     THEN /\ tempFile' = NoFile
          /\ saves' = [c \in Callers |->
                         IF c = caller THEN IdleSave
                         ELSE IF saves[c].fd = "temp" THEN [saves[c] EXCEPT !.fd = "orphan"]
                         ELSE saves[c]]
     ELSE /\ saves' = [saves EXCEPT ![caller] = IdleSave]
          /\ UNCHANGED tempFile
  /\ micro' = afterSave(caller)
  /\ sent' = <<>>
  /\ UNCHANGED <<now, schedVars, cache, dirty, lastPersist, consecutiveFailures,
                 durableFile, lastSaved, stopCalled>>

\* stop() after its save() returned: this.scoresCache.cache.clear()
StopClears ==
  /\ UNCHANGED scoreVars
  /\ micro # <<>>
  /\ Head(micro) = "clearCache"
  /\ micro' = Tail(micro)
  /\ cache' = <<>>
  /\ sent' = <<>>
  /\ UNCHANGED <<now, schedVars, dirty, lastPersist, consecutiveFailures, saves,
                 tempFile, durableFile, lastSaved, stopCalled>>

NextCache ==
  \/ CacheTick
  \/ \E gameId \in GameIds : CacheSet(gameId, 85)
  \/ MaybePersist
  \/ Stop
  \/ \E caller \in Callers, ok \in BOOLEAN : SaveOpen(caller, ok)
  \/ \E caller \in Callers, ok \in BOOLEAN : SaveWrite(caller, ok)
  \/ \E caller \in Callers, ok \in BOOLEAN : SaveRename(caller, ok)
  \/ \E caller \in Callers : SaveSucceeds(caller)
  \/ \E caller \in Callers : SaveCatch(caller)
  \/ \E caller \in Callers, ok \in BOOLEAN : SaveUnlink(caller, ok)
  \/ StopClears

\* the helper after an INIT that switched the review scores on
InitCache == SchedInit(CfgScores) /\ CacheInit /\ ScoreInit

SpecCache == InitCache /\ [][NextCache]_vars

(***************************************************************************)
(* enrichWithScores and fetchGameScore                                     *)
(*                                                                         *)
(* The helper has accepted an INIT that switched the review scores on.     *)
(* A cycle whose summaries are in sorts the list and calls                 *)
(* enrichWithScores: cached scores are applied, the activity ids to        *)
(* refresh are looked up in batches, the results of a batch are written    *)
(* to the cache once every lookup of the batch has settled, and            *)
(* maybePersist is awaited before the cycle goes on to the change gate.    *)
(* The clock counts from the start of the helper; Date.now() itself is     *)
(* never 0, so `!entry.cachedAt` holds of no entry written by set().       *)
(***************************************************************************)
\* this.ttlMs of a cache constructed with ttlDays = refreshDays || 7
ttlMs ==
  (IF CfgScores.gameScore.refreshDays # 0 THEN CfgScores.gameScore.refreshDays
   ELSE DEFAULT_REFRESH_DAYS) * 24 * 60 * 60 * 1000

\* GetPlayerSummaries results of the cycles that are enriched: one friend
\* plays the activity 440
ScoreSummaries == {<<PlayerA, PlayerBInGame>>}

\* the body of a 200 response of the review endpoint
ReviewBody(success, summary, positive, negative, reviews) ==
  [object |-> TRUE, success |-> success, query_summary |-> summary,
   total_positive |-> positive, total_negative |-> negative,
   total_reviews |-> reviews]

NoBody == [object |-> FALSE, success |-> FALSE, query_summary |-> FALSE,
           total_positive |-> 0, total_negative |-> 0, total_reviews |-> 0]

\* what a score request can come back with; status 0 is a request without a
\* response (network error, timeout)
ScoreResponses ==
  {[status |-> 200, data |-> ReviewBody(TRUE, TRUE, 85, 15, 100)],
   [status |-> 200, data |-> ReviewBody(TRUE, TRUE, 1700, 300, 2000)],
   [status |-> 200, data |-> ReviewBody(TRUE, TRUE, 9, 1, 10)],
   [status |-> 200, data |-> ReviewBody(FALSE, FALSE, 0, 0, 0)],
   [status |-> 200, data |-> NoBody],
   [status |-> 404, data |-> NoBody],
   [status |-> 429, data |-> NoBody],
   [status |-> 500, data |-> NoBody],
   [status |-> 0, data |-> NoBody]}

\* a lookup whose request has not come back, or that made none
NoResponse == [status |-> -1, data |-> NoBody]

\* fetchGameScore returning null
NullResult == [null |-> TRUE, invalid |-> FALSE, score |-> Undefined,
               reviewCount |-> Undefined]

\* an invalid result that keeps a score
InvalidResult_WithScore == [null |-> FALSE, invalid |-> TRUE, score |-> 0,
                            reviewCount |-> Undefined]

\* fetchGameScore returning { invalid: true }
InvalidResult == [null |-> FALSE, invalid |-> TRUE, score |-> Undefined,
                  reviewCount |-> Undefined]

\* Math.round((total_positive / total) * 100)
roundedScore(positive, total) == (200 * positive + total) \div (2 * total)

\* config.gameScore.minReviews || 50
minReviews(cfg) ==
  IF cfg.gameScore.minReviews # 0 THEN cfg.gameScore.minReviews
  ELSE DEFAULT_MIN_REVIEWS

\* a review count of 1 or more is enough
enoughReviews_Any(cfg, reviews) == ~(reviews = 0)

\* the review count meets the configured minimum
enoughReviews(cfg, reviews) == ~(reviews = 0 \/ reviews < minReviews(cfg))

\* every error response marks the activity id invalid
resultOfError_Invalid(status) == IF status = 429 THEN NullResult ELSE InvalidResult

\* the catch block of fetchGameScore: the result for an error with that status
resultOfError(status) ==
  IF status = 429 THEN NullResult
  ELSE IF status = 404 THEN InvalidResult
  ELSE NullResult

\* what fetchGameScore returns once its request has come back
resultOfResponse(cfg, response) ==
  IF response.status # 200 THEN resultOfError(response.status)
  ELSE IF ~response.data.object THEN NullResult
  ELSE IF ~response.data.success \/ ~response.data.query_summary THEN InvalidResult
  ELSE IF ~enoughReviews(cfg, response.data.total_reviews) THEN NullResult
  ELSE IF response.data.total_positive + response.data.total_negative = 0
  THEN NullResult
  ELSE [null |-> FALSE, invalid |-> FALSE,
        score |-> roundedScore(response.data.total_positive,
                               response.data.total_positive + response.data.total_negative),
        reviewCount |-> response.data.total_reviews]

\* fetchGameScore ignoring the backoff deadline
lookupSkipped_NoBackoff(gameId) == ~isValidGameId(gameId)

\* fetchGameScore returns null before making a request
lookupSkipped(gameId) ==
  ~isValidGameId(gameId) \/ scoreRateLimitBackoff > now

\* { ...scoreData, cachedAt: Date.now() }
entryOf(scoreData, t) ==
  [invalid |-> scoreData.invalid, score |-> scoreData.score,
   reviewCount |-> scoreData.reviewCount, cachedAt |-> t]

hasEntry(c, gameId) ==
  isValidGameId(gameId) /\ \E k \in 1..Len(c) : c[k].key = gameId

\* scoresCache.get(gameId) of an id that has an entry
valueAt(c, gameId) ==
  LET k == CHOOSE j \in 1..Len(c) : c[j].key = gameId IN c[k].value

isInvalid(e) == e.invalid

\* an isStale that counts an entry of exactly the ttl's age as stale
isStale_Inclusive(e, t) == e.cachedAt = Undefined \/ t - e.cachedAt >= ttlMs
isStale(e, t) == e.cachedAt = Undefined \/ t - e.cachedAt > ttlMs

\* a forEach without the exception for entries with many reviews
needsFetch_NoOverride(c, gameId, t) ==
  /\ gameId # Null /\ isValidGameId(gameId)
  /\ (~hasEntry(c, gameId) \/ isStale(valueAt(c, gameId), t))

\* the forEach of enrichWithScores reaches its push for this activity id
\* (the age of an entry without cachedAt is NaN, below no limit)
needsFetch(c, gameId, t) ==
  /\ gameId # Null /\ isValidGameId(gameId)
  /\ \/ ~hasEntry(c, gameId)
     \/ /\ isStale(valueAt(c, gameId), t)
        /\ ~(/\ valueAt(c, gameId).reviewCount > POPULAR_REVIEWS
             /\ valueAt(c, gameId).cachedAt # Undefined
             /\ (t - valueAt(c, gameId).cachedAt) \div 1000 < POPULAR_TTL_SECONDS)

\* the forEach of enrichWithScores: cached scores applied to the records
applyCached(friends, c) ==
  [k \in 1..Len(friends) |->
     IF /\ friends[k].gameId # Null /\ hasEntry(c, friends[k].gameId)
        /\ ~isInvalid(valueAt(c, friends[k].gameId))
        /\ valueAt(c, friends[k].gameId).score # Undefined
     THEN [friends[k] EXCEPT !.gameScore = valueAt(c, friends[k].gameId).score]
     ELSE friends[k]]

RECURSIVE distinct(_)
distinct(s) ==
  IF s = <<>> THEN <<>>
  ELSE LET front == distinct(SubSeq(s, 1, Len(s) - 1))
       IN  IF s[Len(s)] \in Range(front) THEN front ELSE Append(front, s[Len(s)])

\* a queue with one element for each friend record to refresh
gameIdsToFetch_PerFriend(friends, c, t) ==
  SelectSeq([k \in 1..Len(friends) |-> friends[k].gameId],
            LAMBDA g : needsFetch(c, g, t))

\* Array.from(gameIdsToFetch.keys())
gameIdsToFetch(friends, c, t) ==
  distinct(SelectSeq([k \in 1..Len(friends) |-> friends[k].gameId],
                     LAMBDA g : needsFetch(c, g, t)))

\* the results loop of a batch over the cache
RECURSIVE cacheAfter(_, _, _)
cacheAfter(c, lookups, t) ==
  IF lookups = <<>> THEN c
  ELSE LET l == lookups[Len(lookups)]
           before == cacheAfter(c, SubSeq(lookups, 1, Len(lookups) - 1), t)
       IN  IF ~l.result.null /\ isValidGameId(l.gameId)
           THEN cacheSet(before, l.gameId, entryOf(l.result, t))
           ELSE before

\* the results loop of a batch over the friend records
friendsAfter(friends, lookups) ==
  [k \in 1..Len(friends) |->
     IF \E j \in 1..Len(lookups) :
          /\ lookups[j].gameId = friends[k].gameId
          /\ ~lookups[j].result.null /\ ~lookups[j].result.invalid
          /\ lookups[j].result.score # Undefined
     THEN [friends[k] EXCEPT !.gameScore =
             lookups[CHOOSE j \in 1..Len(lookups) :
                       lookups[j].gameId = friends[k].gameId].result.score]
     ELSE friends[k]]

\* every queued id in one batch
firstBatch_Whole(queue) == queue

\* chunkArray(gameIds, size)[0] and the ids of the later batches
firstBatch(queue) ==
  SubSeq(queue, 1, IF Len(queue) < SCORE_CONCURRENT_REQUESTS THEN Len(queue)
                   ELSE SCORE_CONCURRENT_REQUESTS)
laterBatches(queue) == SubSeq(queue, Len(firstBatch(queue)) + 1, Len(queue))

allSettled(lookups) == \A k \in 1..Len(lookups) : lookups[k].settled

\* enrichWithScores from the head of its batch loop: the lookups of the next
\* batch start (each one returns null at once or makes its request), or,
\* with no batch left, maybePersist is called.  c and isDirty are the mapping
\* and the dirty flag the results loop has left
continueEnrich(friends, queue, c, isDirty) ==
  IF queue # <<>>
  THEN LET lookups == [k \in 1..Len(firstBatch(queue)) |->
                         [gameId |-> firstBatch(queue)[k],
                          settled |-> lookupSkipped(firstBatch(queue)[k]),
                          response |-> NoResponse,
                          result |-> NullResult]]
       IN  /\ enrich' = [pc |-> "batch", friends |-> friends,
                         queue |-> laterBatches(queue), lookups |-> lookups]
           /\ micro' = IF allSettled(lookups) THEN <<"scoresSettled">> ELSE <<>>
           /\ UNCHANGED saves
  ELSE /\ enrich' = [pc |-> "persist", friends |-> friends, queue |-> <<>>,
                     lookups |-> <<>>]
       /\ IF persistDue(isDirty, lastPersist, now)
          THEN /\ saves' = [saves EXCEPT !["cycle"] =
                              [pc |-> "open", data |-> serialize(c), fd |-> "none"]]
               /\ micro' = <<>>
          ELSE /\ micro' = <<"enrichReturns">>
               /\ UNCHANGED saves

\* the clock advances by the cooldown or by the ttl of the score cache
ScoreTick(step) ==
  /\ micro = <<>>
  /\ \/ /\ step = RATE_LIMIT_BACKOFF_MS
        /\ (now % ttlMs) \div RATE_LIMIT_BACKOFF_MS < MaxCooldownTicks
     \/ /\ step = ttlMs
        /\ now \div ttlMs < MaxTtlTicks
  /\ now' = now + step
  /\ sent' = <<>>
  /\ UNCHANGED <<micro, schedVars, cacheVars, scoreVars>>

\* every GetPlayerSummaries request of cycle i has answered and the review
\* scores are switched on: sort, then enrichWithScores up to its first await
SummariesArriveScores(i, players) ==
  /\ micro = <<>>
  /\ i \in 1..Len(cycles)
  /\ cycles[i].pc = "summaries"
  /\ config.gameScore.enabled
  /\ ~(config.sortFriends = "totalPlaytime" /\ playtimeCache.created)
  /\ pollState.changeCount < MaxChanges
  /\ LET sorted == sortFriends(config, mapPlayers(players))
     IN  continueEnrich(applyCached(sorted, cache),
                        gameIdsToFetch(sorted, cache, now), cache, dirty)
  /\ cycles' = [cycles EXCEPT ![i].pc = "enrich"]
  /\ sent' = <<>>
  /\ UNCHANGED <<now, config, allowlistSet, pollInterval, timers,
                 lastFriendsHash, errorCount, fetchInProgress, pollState,
                 lastPublished, last, suspended, cache, dirty, lastPersist,
                 consecutiveFailures, tempFile, durableFile, lastSaved,
                 stopCalled, scoreRateLimitBackoff, playVars>>

\* the request of lookup k of the running batch comes back: the rest of
\* fetchGameScore
ScoreResponse(k, response) ==
  /\ micro = <<>>
  /\ enrich.pc = "batch"
  /\ k \in 1..Len(enrich.lookups)
  /\ ~enrich.lookups[k].settled
  /\ scoreRateLimitBackoff' = IF response.status = 429
                              THEN now + RATE_LIMIT_BACKOFF_MS
                              ELSE scoreRateLimitBackoff
  /\ enrich' = [enrich EXCEPT !.lookups[k].settled = TRUE,
                              !.lookups[k].response = response,
                              !.lookups[k].result = resultOfResponse(config, response)]
  /\ micro' = IF allSettled(enrich'.lookups) THEN <<"scoresSettled">> ELSE <<>>
  /\ sent' = <<>>
  /\ UNCHANGED <<now, schedVars, cacheVars, playVars>>

\* Promise.allSettled has resolved: the results loop of the batch, then the
\* next batch or maybePersist
ScoresSettled ==
  /\ micro # <<>>
  /\ Head(micro) = "scoresSettled"
  /\ cache' = cacheAfter(cache, enrich.lookups, now)
  /\ dirty' = (dirty \/ \E k \in 1..Len(enrich.lookups) :
                          /\ ~enrich.lookups[k].result.null
                          /\ isValidGameId(enrich.lookups[k].gameId))
  /\ continueEnrich(friendsAfter(enrich.friends, enrich.lookups), enrich.queue,
                    cache', dirty')
  /\ sent' = <<>>
  /\ UNCHANGED <<now, schedVars, lastPersist, consecutiveFailures, tempFile,
                 durableFile, lastSaved, stopCalled, scoreRateLimitBackoff,
                 playVars>>

\* enrichWithScores has returned: the rest of fetchFriends (the list was
\* sorted before the enrichment, sorting it again changes nothing)
EnrichReturns ==
  /\ micro # <<>>
  /\ Head(micro) = "enrichReturns"
  /\ \E i \in 1..Len(cycles) :
       /\ cycles[i].pc = "enrich"
       /\ completeCycle(i, enrich.friends)
  /\ enrich' = NoEnrich
  /\ UNCHANGED <<now, config, allowlistSet, suspended, cacheVars,
                 scoreRateLimitBackoff, playVars>>

\* the GetFriendList request of cycle i fails
FriendListFailsScores(i) == errorCount < MaxScoreErrors /\ FriendListFails(i)

NextScores ==
  \/ \E step \in {RATE_LIMIT_BACKOFF_MS, ttlMs} : ScoreTick(step)
  \/ ReceiveSuspend
  \/ ReceiveResume
  \/ SchedulePoll
  \/ \E i \in 1..Len(cycles) : FriendListFailsScores(i)
  \/ \E i \in 1..Len(cycles) : FriendListArrives(i, <<"A", "B">>)
  \/ \E i \in 1..Len(cycles), players \in ScoreSummaries : SummariesArriveScores(i, players)
  \/ \E k \in 1..Len(enrich.lookups), response \in ScoreResponses : ScoreResponse(k, response)
  \/ ScoresSettled
  \/ EnrichReturns
  \/ SaveOpen("cycle", TRUE)
  \/ SaveWrite("cycle", TRUE)
  \/ SaveRename("cycle", TRUE)
  \/ SaveSucceeds("cycle")

SpecScores == InitCache /\ [][NextScores]_vars

(***************************************************************************)
(* enrichWithPlaytime and fetchPlaytime                                    *)
(*                                                                         *)
(* A cycle of a helper configured with sortFriends "totalPlaytime" calls   *)
(* enrichWithPlaytime before it sorts.  The cycles considered here end     *)
(* less than persistIntervalMs after the cache was constructed, so the     *)
(* maybePersist at the end of enrichWithPlaytime returns without saving.   *)
(***************************************************************************)
\* what a GetOwnedGames request can come back with: games is the list of the
\* playtime_forever values, hasResponse is whether data.response is there;
\* status 0 is a request without a response (network error, timeout)
OwnedGames(games) == [status |-> 200, hasResponse |-> TRUE, games |-> games]
PlaytimeFailures ==
  {[status |-> 0, hasResponse |-> FALSE, games |-> <<>>],
   [status |-> 500, hasResponse |-> FALSE, games |-> <<>>]}
PlaytimeResponses ==
  {OwnedGames(<<120, 30>>), OwnedGames(<<>>),
   [status |-> 200, hasResponse |-> FALSE, games |-> <<>>]} \cup PlaytimeFailures

\* a lookup whose request has not come back
NoPlaytimeResponse == [status |-> -1, hasResponse |-> FALSE, games |-> <<>>]

\* { totalPlaytime: 0, private: true }
PrivateResult == [totalPlaytime |-> 0, gameCount |-> Undefined, private |-> TRUE]

RECURSIVE sum(_)
sum(s) == IF s = <<>> THEN 0 ELSE s[1] + sum(Tail(s))

\* what fetchPlaytime returns once its request has come back
resultOfPlaytime(response) ==
  IF response.status # 200 THEN PrivateResult
  ELSE IF ~response.hasResponse \/ response.games = <<>> THEN PrivateResult
  ELSE [totalPlaytime |-> sum(response.games), gameCount |-> Len(response.games),
        private |-> FALSE]

\* { ...playtimeData, cachedAt: Date.now() }
playtimeEntryOf(playtimeData, t) ==
  [totalPlaytime |-> playtimeData.totalPlaytime,
   gameCount |-> playtimeData.gameCount,
   private |-> playtimeData.private, cachedAt |-> t]

\* playtimeCache.get(steamId) is not null
hasPlaytime(c, steamId) == \E k \in 1..Len(c) : c[k].key = steamId

\* PlaytimeCache.isStale
playtimeIsStale(e, t) == e.cachedAt = Undefined \/ t - e.cachedAt > PLAYTIME_TTL_MS

\* the forEach of enrichWithPlaytime over the friend records
playtimeApplyCached(friends, c) ==
  [k \in 1..Len(friends) |->
     IF hasPlaytime(c, friends[k].id)
     THEN [friends[k] EXCEPT !.totalPlaytime =
             orZero(valueAt(c, friends[k].id).totalPlaytime)]
     ELSE friends[k]]

\* friendsToFetch: the records without entry or with a stale one
friendsToFetch(friends, c, t) ==
  LET all == [k \in 1..Len(friends) |-> [index |-> k, steamId |-> friends[k].id]]
  IN  SelectSeq(all, LAMBDA q : \/ ~hasPlaytime(c, q.steamId)
                                \/ playtimeIsStale(valueAt(c, q.steamId), t))

\* chunkArray(array, size)[0] and the elements of the later chunks
chunkHead(array, size) ==
  SubSeq(array, 1, IF Len(array) < size THEN Len(array) ELSE size)
chunkRest(array, size) == SubSeq(array, Len(chunkHead(array, size)) + 1, Len(array))

\* the results loop of a batch over the Map of the playtime cache
RECURSIVE playtimeCacheAfter(_, _, _)
playtimeCacheAfter(c, lookups, t) ==
  IF lookups = <<>> THEN c
  ELSE cacheSet(playtimeCacheAfter(c, SubSeq(lookups, 1, Len(lookups) - 1), t),
                lookups[Len(lookups)].steamId,
                playtimeEntryOf(lookups[Len(lookups)].result, t))

\* the results loop of a batch over the friend records
playtimeFriendsAfter(friends, lookups) ==
  [k \in 1..Len(friends) |->
     IF \E j \in 1..Len(lookups) : lookups[j].index = k
     THEN [friends[k] EXCEPT !.totalPlaytime =
             orZero(lookups[CHOOSE j \in 1..Len(lookups) :
                              lookups[j].index = k].result.totalPlaytime)]
     ELSE friends[k]]

\* enrichWithPlaytime from the head of its batch loop: the lookups of the
\* next batch make their requests, or, with no batch left, maybePersist is
\* called and returns
continuePlaytime(friends, queue) ==
  IF queue # <<>>
  THEN /\ playtime' =
            [pc |-> "batch", friends |-> friends,
             queue |-> chunkRest(queue, PLAYTIME_CONCURRENT_REQUESTS),
             lookups |-> [k \in 1..Len(chunkHead(queue, PLAYTIME_CONCURRENT_REQUESTS)) |->
                            [index |-> queue[k].index, steamId |-> queue[k].steamId,
                             settled |-> FALSE, response |-> NoPlaytimeResponse,
                             result |-> PrivateResult]]]
       /\ micro' = <<>>
  ELSE /\ playtime' = [pc |-> "persist", friends |-> friends, queue |-> <<>>,
                       lookups |-> <<>>]
       /\ micro' = <<"playtimeReturns">>

\* every GetPlayerSummaries request of cycle i has answered and the list is
\* to be sorted by playtime: enrichWithPlaytime up to its first await
SummariesArrivePlaytime(i, players) ==
  /\ micro = <<>>
  /\ i \in 1..Len(cycles)
  /\ cycles[i].pc = "summaries"
  /\ config.sortFriends = "totalPlaytime" /\ playtimeCache.created
  /\ {players[k].steamid : k \in 1..Len(players)} \subseteq Range(cycles[i].friendIds)
  /\ ~(playtimeCache.dirty /\ now - playtimeCache.lastPersist >= persistIntervalMs)
  /\ continuePlaytime(playtimeApplyCached(mapPlayers(players), playtimeCache.cache),
                      friendsToFetch(mapPlayers(players), playtimeCache.cache, now))
  /\ cycles' = [cycles EXCEPT ![i].pc = "playtime"]
  /\ sent' = <<>>
  /\ UNCHANGED <<now, config, allowlistSet, pollInterval, timers,
                 lastFriendsHash, errorCount, fetchInProgress, pollState,
                 lastPublished, last, suspended, cacheVars,
                 scoreRateLimitBackoff, enrich, playtimeCache, setCalls, loading>>

\* the request of lookup k of the running batch comes back: the rest of
\* fetchPlaytime
PlaytimeResponse(k, response) ==
  /\ micro = <<>>
  /\ playtime.pc = "batch"
  /\ k \in 1..Len(playtime.lookups)
  /\ ~playtime.lookups[k].settled
  /\ playtime' = [playtime EXCEPT !.lookups[k].settled = TRUE,
                                  !.lookups[k].response = response,
                                  !.lookups[k].result = resultOfPlaytime(response)]
  /\ micro' = IF allSettled(playtime'.lookups) THEN <<"playtimeSettled">> ELSE <<>>
  /\ sent' = <<>>
  /\ UNCHANGED <<now, schedVars, cacheVars, scoreRateLimitBackoff, enrich,
                 playtimeCache, setCalls, loading>>

\* Promise.all has resolved: the results loop of the batch, then the next
\* batch or maybePersist
PlaytimeSettled ==
  /\ micro # <<>>
  /\ Head(micro) = "playtimeSettled"
  /\ playtimeCache' =
       [playtimeCache EXCEPT
          !.cache = playtimeCacheAfter(playtimeCache.cache, playtime.lookups, now),
          !.dirty = TRUE]
  /\ ~(now - playtimeCache.lastPersist >= persistIntervalMs)
  /\ continuePlaytime(playtimeFriendsAfter(playtime.friends, playtime.lookups),
                      playtime.queue)
  /\ sent' = <<>>
  /\ UNCHANGED <<now, schedVars, cacheVars, scoreRateLimitBackoff, enrich,
                 setCalls, loading>>

\* enrichWithPlaytime has returned: the sort, then enrichWithScores up to its
\* first await or, with the review scores switched off, the rest of
\* fetchFriends
PlaytimeReturns ==
  /\ micro # <<>>
  /\ Head(micro) = "playtimeReturns"
  /\ playtime' = NoPlaytime
  /\ \E i \in 1..Len(cycles) :
       /\ cycles[i].pc = "playtime"
       /\ IF config.gameScore.enabled
          THEN /\ LET sorted == sortFriends(config, playtime.friends)
                  IN  continueEnrich(applyCached(sorted, cache),
                                     gameIdsToFetch(sorted, cache, now), cache, dirty)
               /\ cycles' = [cycles EXCEPT ![i].pc = "enrich"]
               /\ sent' = <<>>
               /\ UNCHANGED <<pollInterval, timers, lastFriendsHash, errorCount,
                              fetchInProgress, pollState, lastPublished, last,
                              cache, dirty, lastPersist, consecutiveFailures,
                              tempFile, durableFile, lastSaved, stopCalled>>
          ELSE /\ completeCycle(i, playtime.friends)
               /\ UNCHANGED <<cacheVars, enrich>>
  /\ UNCHANGED <<now, config, allowlistSet, suspended, scoreRateLimitBackoff,
                 playtimeCache, setCalls, loading>>

(***************************************************************************)
(* The sort of a cycle, by each of the sort methods                        *)
(*                                                                         *)
(* The helper has handled an INIT up to its call of fetchFriends: the      *)
(* caches are constructed and loaded, the first cycle waits for the friend *)
(* list.  The clock stands at StartTime, later than any ttl.               *)
(***************************************************************************)
StartTime == 700000000

\* the scheduler inside the INIT handler, at `await this.fetchFriends()`,
\* after that many cycles have failed (INIT leaves errorCount as it is)
InCycleAfter(cfg, errors) ==
  /\ now = StartTime
  /\ config = cfg
  /\ allowlistSet = NoAllowlistSet
  /\ pollInterval = NoTimer
  /\ timers = {}
  /\ lastFriendsHash = NullHash
  /\ errorCount = errors
  /\ fetchInProgress = TRUE
  /\ pollState = [baseInterval |-> BASE_INTERVAL, currentInterval |-> BASE_INTERVAL,
                  lastChangeTime |-> 0, changeCount |-> 0]
  /\ cycles = <<[pc |-> "friendList", then |-> "schedulePoll",
                 key |-> apiKey(cfg), friendIds |-> <<>>]>>
  /\ micro = <<>>
  /\ sent = <<>>
  /\ lastPublished = NoSnapshot
  /\ last = IF errors = 0 THEN Outcome("none", <<>>) ELSE Outcome("error", <<>>)
  /\ suspended = FALSE

\* the first INIT of the helper, at `await this.fetchFriends()`
InCycle(cfg) == InCycleAfter(cfg, 0)

\* a score cache constructed by INIT at StartTime, holding the entries c
CacheLoaded(c) ==
  /\ cache = c
  /\ dirty = FALSE
  /\ lastPersist = StartTime
  /\ consecutiveFailures = 0
  /\ saves = [caller \in Callers |-> IdleSave]
  /\ tempFile = NoFile
  /\ durableFile = NoFile
  /\ lastSaved = NoData
  /\ stopCalled = FALSE

\* a playtime cache constructed by INIT at StartTime, holding the entries c
PlaytimeLoaded(c) ==
  [created |-> TRUE, cache |-> c, dirty |-> FALSE, lastPersist |-> StartTime]

\* configurations that differ in the sort method
CfgRecent == [CfgDefault EXCEPT !.sortFriends = "recentActivity"]
CfgPlaytime == [CfgDefault EXCEPT !.sortFriends = "totalPlaytime"]
SortConfigs == {CfgDefault, CfgRecent, CfgPlaytime}

\* players of the account: C has the display name, status and last log-off of
\* A, D is away and in a game, E is online like B and was last seen when B was
PlayerC == [PlayerA EXCEPT !.steamid = "C"]
PlayerD == [steamid |-> "D", personaname |-> "dan", personastate |-> 3,
            gameid |-> "440", gameextrainfo |-> "tf2", lastlogoff |-> Undefined]
PlayerE == [steamid |-> "E", personaname |-> "eve", personastate |-> 1,
            gameid |-> NoGame, gameextrainfo |-> "", lastlogoff |-> 200]
SortPlayers == {PlayerA, PlayerB, PlayerC, PlayerD, PlayerE}
SortIds == <<"A", "B", "C", "D", "E">>

\* GetPlayerSummaries results: up to MaxSortLen of the players, in any order
SortSummaries ==
  {players \in UNION {[1..n -> SortPlayers] : n \in 1..MaxSortLen} :
     \A j, k \in 1..Len(players) : j # k => players[j] # players[k]}

\* a playtime entry cached a second before StartTime
FreshPlaytime(steamId, total) ==
  [key |-> steamId,
   value |-> [totalPlaytime |-> total, gameCount |-> 2, private |-> FALSE,
              cachedAt |-> StartTime - 1000]]

\* the playtime cache the INIT has loaded: E has no entry
SortPlaytimeCache ==
  <<FreshPlaytime("A", 300), FreshPlaytime("B", 50), FreshPlaytime("C", 300),
    FreshPlaytime("D", 120)>>

InitSort ==
  /\ \E cfg \in SortConfigs :
       /\ InCycle(cfg)
       /\ playtimeCache = IF cfg.sortFriends = "totalPlaytime"
                          THEN PlaytimeLoaded(SortPlaytimeCache)
                          ELSE NoPlaytimeCache
  /\ CacheInit
  /\ scoreRateLimitBackoff = 0
  /\ enrich = NoEnrich
  /\ playtime = NoPlaytime
  /\ setCalls = 0
  /\ loading = NoLoad

NextSort ==
  \/ \E i \in 1..Len(cycles) : FriendListArrives(i, SortIds)
  \/ \E i \in 1..Len(cycles), players \in SortSummaries : SummariesArrive(i, players)
  \/ \E i \in 1..Len(cycles), players \in SortSummaries :
       SummariesArrivePlaytime(i, players)
  \/ \E k \in 1..Len(playtime.lookups), response \in PlaytimeResponses :
       PlaytimeResponse(k, response)
  \/ PlaytimeSettled
  \/ PlaytimeReturns
  \/ SchedulePoll

SpecSort == InitSort /\ [][NextSort]_vars

(***************************************************************************)
(* ScoresCache over restarts of the helper: set, save, load, isStale       *)
(*                                                                         *)
(* save() is taken with every file operation succeeding and no other code  *)
(* running between its awaits; a restart constructs a new ScoresCache and  *)
(* loads the durable file.  The JSON text is the list of the properties of *)
(* the object in the order Object.fromEntries gives them: keys that are    *)
(* array indices (canonical numerals below 2^32 - 1, which every activity  *)
(* id of the model is) in ascending numeric order.                         *)
(***************************************************************************)
\* the number a key that is an array index denotes
keyNumber(key) ==
  CASE key = "440" -> 440
    [] key = "570" -> 570
    [] OTHER -> 0

\* e added to the property list s of an object
RECURSIVE insertByKey(_, _)
insertByKey(s, e) ==
  IF s = <<>> THEN <<e>>
  ELSE IF keyNumber(e.key) < keyNumber(s[Len(s)].key)
       THEN Append(insertByKey(SubSeq(s, 1, Len(s) - 1), e), s[Len(s)])
       ELSE Append(s, e)

\* Object.fromEntries(this.cache)
RECURSIVE fromEntries(_)
fromEntries(c) ==
  IF c = <<>> THEN <<>>
  ELSE insertByKey(fromEntries(SubSeq(c, 1, Len(c) - 1)), c[Len(c)])

\* JSON.stringify of an entry: a property whose value is undefined is left
\* out, `invalid` is written where it is true
stringifyEntry(value) ==
  [invalid |-> value.invalid,
   numbers |-> SelectSeq(<<<<"score", value.score>>,
                           <<"reviewCount", value.reviewCount>>,
                           <<"cachedAt", value.cachedAt>>>>,
                         LAMBDA kv : kv[2] # Undefined)]

\* the value of the property `name` of a parsed entry
numberOf(numbers, name) ==
  IF \E k \in 1..Len(numbers) : numbers[k][1] = name
  THEN numbers[CHOOSE k \in 1..Len(numbers) : numbers[k][1] = name][2]
  ELSE Undefined

\* JSON.parse of an entry that loses the time stamp
parseEntry_NoStamp(text) ==
  [invalid |-> text.invalid, score |-> numberOf(text.numbers, "score"),
   reviewCount |-> numberOf(text.numbers, "reviewCount"),
   cachedAt |-> Undefined]

\* JSON.parse of an entry
parseEntry(text) ==
  [invalid |-> text.invalid, score |-> numberOf(text.numbers, "score"),
   reviewCount |-> numberOf(text.numbers, "reviewCount"),
   cachedAt |-> numberOf(text.numbers, "cachedAt")]

\* JSON.stringify(Object.fromEntries(this.cache))
stringify(c) ==
  [i \in 1..Len(c) |-> [key |-> fromEntries(c)[i].key,
                        value |-> stringifyEntry(fromEntries(c)[i].value)]]

\* load(): the entries of the parsed object put into the new Map one by one
load(file) ==
  IF file.exists /\ file.complete
  THEN [i \in 1..Len(file.data) |-> [key |-> file.data[i].key,
                                     value |-> parseEntry(file.data[i].value)]]
  ELSE <<>>

\* the for loop of load() over a Map that holds entries already: Map.set of
\* each parsed entry
RECURSIVE cacheAdd(_, _)
cacheAdd(c, entries) ==
  IF entries = <<>> THEN c
  ELSE LET before == cacheAdd(c, SubSeq(entries, 1, Len(entries) - 1))
           entry == entries[Len(entries)]
       IN  IF \E i \in 1..Len(before) : before[i].key = entry.key
           THEN [i \in 1..Len(before) |->
                   IF before[i].key = entry.key THEN entry ELSE before[i]]
           ELSE Append(before, entry)

\* a result with a score, as fetchGameScore returns it
ScoreResult == [null |-> FALSE, invalid |-> FALSE, score |-> 85, reviewCount |-> 100]

\* a cache file written by other means: its entry has no cachedAt
ForeignFile ==
  [exists |-> TRUE, complete |-> TRUE,
   data |-> <<[key |-> "570",
               value |-> [invalid |-> FALSE, numbers |-> <<<<"score", 70>>>>]]>>]

\* an isStale that takes an id without entry for fresh
isStaleAt_AbsentFresh(c, gameId, t) ==
  hasEntry(c, gameId) /\ isStale(valueAt(c, gameId), t)

\* isStale(get(gameId)) at time t: get returns null where there is no entry
isStaleAt(c, gameId, t) == ~hasEntry(c, gameId) \/ isStale(valueAt(c, gameId), t)

\* the clock advances by a millisecond or by the ttl of the cache
StoreTick(step) ==
  /\ \/ /\ step = 1
        /\ now % ttlMs < MaxStoreMs
     \/ /\ step = ttlMs
        /\ now \div ttlMs < MaxTtlTicks
  /\ now' = now + step
  /\ sent' = <<>>
  /\ UNCHANGED <<micro, schedVars, cacheVars, scoreVars>>

\* scoresCache.set(gameId, scoreData)
StoreSet(gameId, scoreData) ==
  /\ setCalls < MaxSetCalls
  /\ setCalls' = setCalls + 1
  /\ IF isValidGameId(gameId)
     THEN /\ cache' = cacheSet(cache, gameId, entryOf(scoreData, now))
          /\ dirty' = TRUE
     ELSE UNCHANGED <<cache, dirty>>
  /\ sent' = <<>>
  /\ UNCHANGED <<now, micro, schedVars, lastPersist, consecutiveFailures, saves,
                 tempFile, durableFile, lastSaved, stopCalled,
                 scoreRateLimitBackoff, enrich, playtimeCache, playtime,
                 loading>>

\* scoresCache.save() whose writeFile and rename succeed
StoreSave ==
  /\ IF dirty
     THEN /\ durableFile' = [exists |-> TRUE, complete |-> TRUE,
                             data |-> stringify(cache)]
          /\ dirty' = FALSE
          /\ lastPersist' = now
          /\ consecutiveFailures' = 0
     ELSE UNCHANGED <<durableFile, dirty, lastPersist, consecutiveFailures>>
  /\ sent' = <<>>
  /\ UNCHANGED <<now, micro, schedVars, cache, saves, tempFile, lastSaved,
                 stopCalled, scoreVars>>

\* the helper is started again: new ScoresCache(cachePath, ttlDays) and load()
StoreLoad ==
  /\ cache' = load(durableFile)
  /\ dirty' = FALSE
  /\ lastPersist' = now
  /\ consecutiveFailures' = 0
  /\ sent' = <<>>
  /\ UNCHANGED <<now, micro, schedVars, saves, tempFile, durableFile, lastSaved,
                 stopCalled, scoreVars>>

\* the helper starts with no cache file or with one written by other means
InitStore ==
  /\ SchedInit(CfgScores)
  /\ cache = <<>>
  /\ dirty = FALSE
  /\ lastPersist = 0
  /\ consecutiveFailures = 0
  /\ saves = [caller \in Callers |-> IdleSave]
  /\ tempFile = NoFile
  /\ durableFile \in {NoFile, ForeignFile}
  /\ lastSaved = NoData
  /\ stopCalled = FALSE
  /\ ScoreInit

NextStore ==
  \/ \E step \in {1, ttlMs} : StoreTick(step)
  \/ \E gameId \in GameIds \cup {"abc"}, scoreData \in {ScoreResult, InvalidResult} :
       StoreSet(gameId, scoreData)
  \/ StoreSave
  \/ StoreLoad

SpecStore == InitStore /\ [][NextStore]_vars

(***************************************************************************)
(* ScoresCache.set at the capacity of the cache                            *)
(***************************************************************************)
\* the Map after set() was called with the ids "1" to "n" in this order
filled(n) == [i \in 1..n |-> [key |-> ToString(i), value |-> entryOf(ScoreResult, 0)]]

\* the ids set() is called with: the two oldest keys, the newest, two that
\* are in no cache, and one that is no activity id
FillArgs == {"1", "2", ToString(MAX_CACHE_SIZE), ToString(MAX_CACHE_SIZE + 1),
             ToString(MAX_CACHE_SIZE + 2), "abc"}

\* a cache that is empty, one short of its capacity, or full
InitFill ==
  /\ SchedInit(CfgScores)
  /\ cache \in {filled(0), filled(MAX_CACHE_SIZE - 1), filled(MAX_CACHE_SIZE)}
  /\ dirty = (cache # <<>>)
  /\ lastPersist = 0
  /\ consecutiveFailures = 0
  /\ saves = [caller \in Callers |-> IdleSave]
  /\ tempFile = NoFile
  /\ durableFile = NoFile
  /\ lastSaved = NoData
  /\ stopCalled = FALSE
  /\ ScoreInit

NextFill ==
  \E gameId \in FillArgs, scoreData \in {ScoreResult, InvalidResult} :
    StoreSet(gameId, scoreData)

SpecFill == InitFill /\ [][NextFill]_vars

(***************************************************************************)
(* The batches of one cycle's enrichment                                   *)
(*                                                                         *)
(* A helper whose INIT has loaded the caches runs one cycle over a list of *)
(* MaxPlaying + 1 friends.  Friend k plays the activity k, the last friend *)
(* plays the activity of the first.  The score lookups run in batches of   *)
(* SCORE_CONCURRENT_REQUESTS, the usage lookups in batches of              *)
(* PLAYTIME_CONCURRENT_REQUESTS.  The cycle ends before persistIntervalMs  *)
(* has passed since the caches were constructed, so no save starts.        *)
(***************************************************************************)
BatchNames == <<"alice", "bob", "dan", "eve">>

\* player k of the account, as GetPlayerSummaries returns it
BatchPlayer(k) ==
  [steamid |-> ToString(100 + k), personaname |-> BatchNames[(k % 4) + 1],
   personastate |-> 1,
   gameid |-> ToString(IF k <= MaxPlaying THEN k ELSE 1),
   gameextrainfo |-> "game", lastlogoff |-> 100]

\* the GetFriendList and the GetPlayerSummaries result of the cycle
BatchIds == [k \in 1..(MaxPlaying + 1) |-> ToString(100 + k)]
BatchSummaries == [k \in 1..(MaxPlaying + 1) |-> BatchPlayer(k)]

\* the score cache the INIT has loaded: the entry of activity 2 is older than
\* the ttl, the entry of activity 3 is a second old
BatchScores ==
  <<[key |-> "2", value |-> [invalid |-> FALSE, score |-> 70, reviewCount |-> 100,
                             cachedAt |-> StartTime - ttlMs - 1000]],
    [key |-> "3", value |-> [invalid |-> FALSE, score |-> 90, reviewCount |-> 100,
                             cachedAt |-> StartTime - 1000]]>>

\* a playtime entry cached more than its ttl before StartTime
StalePlaytime(steamId, total) ==
  [key |-> steamId,
   value |-> [totalPlaytime |-> total, gameCount |-> 2, private |-> FALSE,
              cachedAt |-> StartTime - PLAYTIME_TTL_MS - 1000]]

\* the playtime cache the INIT has loaded: a stale entry with 300 minutes for
\* friend 102, a fresh one for friend 103, none for the others
BatchPlaytimes == <<StalePlaytime("102", 300), FreshPlaytime("103", 50)>>

\* a loaded playtime cache with fresh entries for every friend but 101
KnownPlaytimes == [k \in 1..MaxPlaying |-> FreshPlaytime(ToString(101 + k), 10 * k)]

\* review scores with the alphabetic sort, the sort by playtime without
\* review scores, and both
CfgBoth == [CfgScores EXCEPT !.sortFriends = "totalPlaytime"]
BatchSetups ==
  {[cfg |-> CfgScores, playtimeCache |-> NoPlaytimeCache],
   [cfg |-> CfgPlaytime, playtimeCache |-> PlaytimeLoaded(BatchPlaytimes)],
   [cfg |-> CfgBoth, playtimeCache |-> PlaytimeLoaded(KnownPlaytimes)]}

\* what the requests of the cycle's lookups come back with
BatchScoreResponses ==
  {[status |-> 200, data |-> ReviewBody(TRUE, TRUE, 85, 15, 100)],
   [status |-> 404, data |-> NoBody],
   [status |-> 429, data |-> NoBody],
   [status |-> 0, data |-> NoBody]}
BatchPlaytimeResponses == {OwnedGames(<<120, 30>>)} \cup PlaytimeFailures

InitBatches ==
  /\ \E setup \in BatchSetups, errors \in 0..1 :
       /\ InCycleAfter(setup.cfg, errors)
       /\ playtimeCache = setup.playtimeCache
  /\ CacheLoaded(BatchScores)
  /\ scoreRateLimitBackoff = 0
  /\ enrich = NoEnrich
  /\ playtime = NoPlaytime
  /\ setCalls = 0
  /\ loading = NoLoad

NextBatches ==
  \/ \E i \in 1..Len(cycles) : FriendListArrives(i, BatchIds)
  \/ \E i \in 1..Len(cycles) : SummariesArriveScores(i, BatchSummaries)
  \/ \E i \in 1..Len(cycles) : SummariesArrivePlaytime(i, BatchSummaries)
  \/ \E k \in 1..Len(enrich.lookups), response \in BatchScoreResponses :
       ScoreResponse(k, response)
  \/ ScoresSettled
  \/ EnrichReturns
  \/ \E k \in 1..Len(playtime.lookups), response \in BatchPlaytimeResponses :
       PlaytimeResponse(k, response)
  \/ PlaytimeSettled
  \/ PlaytimeReturns
  \/ SchedulePoll

SpecBatches == InitBatches /\ [][NextBatches]_vars

(***************************************************************************)
(* Cached scores at the start of a cycle's enrichment                      *)
(*                                                                         *)
(* The cycle of the batches above, with a score cache that holds entries   *)
(* of every kind the forEach of enrichWithScores tells apart.  The clock   *)
(* stands at StartTime, so no entry written by the helper is 30 days old.  *)
(***************************************************************************)
ScoreEntry(gameId, invalid, score, reviewCount, cachedAt) ==
  [key |-> gameId, value |-> [invalid |-> invalid, score |-> score,
                              reviewCount |-> reviewCount, cachedAt |-> cachedAt]]

\* no entry for activity 1; 2: older than the ttl, many reviews; 3: older
\* than the ttl, POPULAR_REVIEWS reviews; 4: of exactly the ttl's age; 5: an
\* invalid entry older than the ttl; 6: many reviews and no cachedAt; 7: a
\* fresh invalid entry
PopularScores ==
  <<ScoreEntry("2", FALSE, 70, POPULAR_REVIEWS + 1, StartTime - ttlMs - 1),
    ScoreEntry("3", FALSE, 60, POPULAR_REVIEWS, StartTime - ttlMs - 1),
    ScoreEntry("4", FALSE, 90, 100, StartTime - ttlMs),
    ScoreEntry("5", TRUE, Undefined, Undefined, StartTime - ttlMs - 1),
    ScoreEntry("6", FALSE, 80, POPULAR_REVIEWS + 1, Undefined),
    ScoreEntry("7", TRUE, Undefined, Undefined, StartTime - 1000)>>

InitPopular ==
  /\ \E errors \in 0..1 : InCycleAfter(CfgScores, errors)
  /\ CacheLoaded(PopularScores)
  /\ scoreRateLimitBackoff = 0
  /\ enrich = NoEnrich
  /\ playtimeCache = NoPlaytimeCache
  /\ playtime = NoPlaytime
  /\ setCalls = 0
  /\ loading = NoLoad

NextPopular ==
  \/ \E i \in 1..Len(cycles) : FriendListArrives(i, BatchIds)
  \/ \E i \in 1..Len(cycles) : SummariesArriveScores(i, BatchSummaries)
  \/ \E k \in 1..Len(enrich.lookups), response \in BatchScoreResponses :
       ScoreResponse(k, response)
  \/ ScoresSettled
  \/ EnrichReturns
  \/ SchedulePoll

SpecPopular == InitPopular /\ [][NextPopular]_vars

(***************************************************************************)
(* INIT with the review scores switched on: the cache is constructed and   *)
(* loaded before the first cycle                                           *)
(*                                                                         *)
(* The handler is suspended at `await this.scoresCache.load()` while       *)
(* readFile is pending; other handlers run in between.  existsSync is      *)
(* synchronous, so a load() of a missing file returns without a wait.  No  *)
(* time passes: no timer fires and no save starts.                         *)
(***************************************************************************)
\* a cache file cut off in the middle of an entry: JSON.parse throws
TruncatedFile == [ForeignFile EXCEPT !.complete = FALSE]

\* the cache file at the start of the helper
LoadFiles == {NoFile, TruncatedFile, ForeignFile}

\* the lookups of the cycles answer with a score or with an error
LoadResponses ==
  {[status |-> 200, data |-> ReviewBody(TRUE, TRUE, 85, 15, 100)],
   [status |-> 500, data |-> NoBody]}

\* a load() whose catch block leaves the Map as it is
loaded_KeepsOnError(c, file, ok) ==
  IF ok /\ file.complete THEN cacheAdd(c, load(file)) ELSE c

\* the Map after the readFile of load() has settled: the parsed entries are
\* put into it, or the catch block replaces it by an empty one
loaded(c, file, ok) ==
  IF ok /\ file.complete THEN cacheAdd(c, load(file)) ELSE <<>>

\* socketNotificationReceived("INIT", payload) for payloads that switch on
\* the review scores only, up to the first wait of load()
ReceiveInitScores(payload) ==
  /\ micro = <<>>
  /\ loading = NoLoad
  /\ payload.gameScore.enabled /\ payload.sortFriends # "totalPlaytime"
  /\ validationError(payload) = ""
  /\ ~(payload.setup /\ (payload.steamApiKey = "" \/ payload.steamId = ""))
  /\ timers' = clearTimeout(timers, pollInterval)
  /\ pollInterval' = NoTimer
  /\ config' = payload
  /\ suspended' = FALSE
  /\ cache' = <<>>
  /\ dirty' = FALSE
  /\ lastPersist' = now
  /\ consecutiveFailures' = 0
  /\ IF durableFile.exists
     THEN loading' = "readFile" /\ micro' = <<>>
     ELSE loading' = NoLoad /\ micro' = <<"loadReturns">>
  /\ sent' = <<>>
  /\ UNCHANGED <<now, allowlistSet, lastFriendsHash, errorCount,
                 fetchInProgress, pollState, cycles, lastPublished, last,
                 saves, tempFile, durableFile, lastSaved, stopCalled,
                 scoreRateLimitBackoff, enrich, playtimeCache, playtime,
                 setCalls>>

\* readFile of the pending load() settles: the rest of load().  A rejected
\* readFile and a throwing JSON.parse end in the catch block
ReadFileSettles(ok) ==
  /\ micro = <<>>
  /\ loading = "readFile"
  /\ cache' = loaded(cache, durableFile, ok)
  /\ loading' = NoLoad
  /\ micro' = <<"loadReturns">>
  /\ sent' = <<>>
  /\ UNCHANGED <<now, schedVars, dirty, lastPersist, consecutiveFailures,
                 saves, tempFile, durableFile, lastSaved, stopCalled,
                 scoreRateLimitBackoff, enrich, playtimeCache, playtime,
                 setCalls>>

\* load() has returned: the rest of the INIT handler
LoadReturns ==
  /\ micro # <<>>
  /\ Head(micro) = "loadReturns"
  /\ fetchFriends(config, "schedulePoll", timers, pollInterval)
  /\ UNCHANGED <<now, config, allowlistSet, suspended, cacheVars, scoreVars>>

InitLoad ==
  /\ SchedInit(NullConfig)
  /\ cache = <<>>
  /\ dirty = FALSE
  /\ lastPersist = 0
  /\ consecutiveFailures = 0
  /\ saves = [caller \in Callers |-> IdleSave]
  /\ tempFile = NoFile
  /\ durableFile \in LoadFiles
  /\ lastSaved = NoData
  /\ stopCalled = FALSE
  /\ ScoreInit

NextLoad ==
  \/ ReceiveInitScores(CfgScores)
  \/ \E ok \in BOOLEAN : ReadFileSettles(ok)
  \/ LoadReturns
  \/ ReceiveResume
  \/ SchedulePoll
  \/ \E i \in 1..Len(cycles) : FriendListArrives(i, <<"A", "B">>)
  \/ \E i \in 1..Len(cycles), players \in ScoreSummaries :
       SummariesArriveScores(i, players)
  \/ \E k \in 1..Len(enrich.lookups), response \in LoadResponses :
       ScoreResponse(k, response)
  \/ ScoresSettled
  \/ EnrichReturns

SpecLoad == InitLoad /\ [][NextLoad]_vars

(***************************************************************************)
(* Reconfiguration                                                         *)
(*                                                                         *)
(* The display sends INIT again with another configuration while the       *)
(* helper runs.  The two configurations differ in the API key, the friend  *)
(* allowlist and the sort method; the account has the friends A, B and E.  *)
(* No timer expires: cycles start by INIT and by RESUME.                   *)
(***************************************************************************)
\* E, online like B and seen after B was
PlayerLate == [PlayerE EXCEPT !.lastlogoff = 300]

ReconfFirst == [CfgDefault EXCEPT !.friendAllowlist = <<"B", "E">>]
ReconfSecond ==
  [CfgDefault EXCEPT !.friendAllowlist = <<"E", "A">>, !.steamApiKey = "key2",
                     !.sortFriends = "recentActivity"]
ReconfPayloads == {ReconfFirst, ReconfSecond}

\* GetFriendList result of the account
ReconfIds == <<"A", "B", "E">>

\* GetPlayerSummaries results: two of the players, in either order
ReconfSummaries ==
  {players \in [1..2 -> {PlayerA, PlayerB, PlayerLate}] : players[1] # players[2]}

\* the summaries of cycle i are those of the ids the cycle asked for
SummariesArriveFor(i, players) ==
  /\ i \in 1..Len(cycles)
  /\ {players[k].steamid : k \in 1..Len(players)} = Range(cycles[i].friendIds)
  /\ SummariesArrive(i, players)

NextReconf ==
  \/ \E payload \in ReconfPayloads : ReceiveInit(payload)
  \/ ReceiveSuspend
  \/ ReceiveResume
  \/ SchedulePoll
  \/ \E i \in 1..Len(cycles) : FriendListArrives(i, ReconfIds)
  \/ \E i \in 1..Len(cycles), players \in ReconfSummaries :
       SummariesArriveFor(i, players)

SpecReconf == Init /\ [][NextReconf]_vars

\* INIT that arrives while no cycle is in flight
ReceiveInitIdle(payload) ==
  /\ cycles = <<>>
  /\ ReceiveInit(payload)

NextReconfIdle ==
  \/ \E payload \in ReconfPayloads : ReceiveInitIdle(payload)
  \/ ReceiveSuspend
  \/ ReceiveResume
  \/ SchedulePoll
  \/ \E i \in 1..Len(cycles) : FriendListArrives(i, ReconfIds)
  \/ \E i \in 1..Len(cycles), players \in ReconfSummaries :
       SummariesArriveFor(i, players)

\* reconfiguration between cycles only
SpecReconfIdle == Init /\ [][NextReconfIdle]_vars

(***************************************************************************)
(* Properties of the scheduler and the change gate                         *)
(***************************************************************************)
\* a step in which fetchFriends is called: INIT with an accepted, complete
\* configuration, RESUME with no stored timer, or a timer expiring
callsFetchFriends ==
  \/ \E payload \in InitPayloads :
       /\ validateConfig(payload)
       /\ ~(payload.setup /\ (payload.steamApiKey = "" \/ payload.steamId = ""))
       /\ ReceiveInit(payload)
  \/ pollInterval = NoTimer /\ config # NullConfig /\ ReceiveResume
  \/ \E t \in timers : TimerFires(t)

\* a step in which a fetch cycle ends (its finally block runs)
cycleEnds == Len(cycles') < Len(cycles)

\* a step in which a fetch cycle starts
cycleStarts == Len(cycles') > Len(cycles)

\* a step that sends a FRIENDS_UPDATE
publishes == \E k \in 1..Len(sent') : sent'[k].type = "FRIENDS_UPDATE"

\* C1: at most one fetch cycle is in flight, the in-progress flag is set
\* exactly while one is, and a call of fetchFriends made while a cycle is in
\* flight starts no request, sends no notification and leaves errorCount,
\* lastFriendsHash and pollState as they are
C1_SingleCycle ==
  [][/\ Len(cycles') <= 1
     /\ fetchInProgress' = (Len(cycles') = 1)
     /\ (fetchInProgress /\ callsFetchFriends) =>
          /\ cycles' = cycles
          /\ sent' = <<>>
          /\ errorCount' = errorCount
          /\ lastFriendsHash' = lastFriendsHash
          /\ pollState' = pollState]_vars

\* a trigger was skipped: its continuation is queued while the cycle that
\* made it a no-op is still in flight
C1_Witness == Len(cycles) = 1 /\ fetchInProgress /\ micro = <<"schedulePoll">>

\* C2: a cycle that completes without error and whose final list has the
\* fingerprint of the previous cycle's list sends no FRIENDS_UPDATE
C2_NoRepublish ==
  [][(/\ cycleEnds
      /\ last.outcome = "ok" /\ last'.outcome = "ok"
      /\ hashData(last'.list) = hashData(last.list)) => ~publishes]_vars

\* C3: after a cycle that completed without error the snapshot last
\* published is the final list of that cycle
C3_PublishedIsCurrent ==
  last.outcome = "ok" => lastPublished.published /\ lastPublished.list = last.list

\* C4: once errorCount has reached the threshold every armed timer waits at
\* least the fallback interval
C4_Backoff ==
  (errorCount >= MAX_CONSECUTIVE_ERRORS /\ micro = <<>>) =>
    \A t \in timers : t.delay >= FALLBACK_POLL_INTERVAL

\* C5: a cycle that completes without error leaves errorCount at 0, a failed
\* cycle leaves it one higher than before
C5_ErrorCount ==
  [][cycleEnds => IF last'.outcome = "ok" THEN errorCount' = 0
                  ELSE errorCount' = errorCount + 1]_vars

\* C6: between a SUSPEND and the next RESUME or INIT no fetch cycle starts
C6_NoStartWhileSuspended ==
  [][(suspended /\ suspended') => ~cycleStarts]_vars

\* C7: schedulePoll selects the hot interval exactly when a snapshot was
\* published within the preceding 300000 ms, the cold interval otherwise,
\* and nothing else changes currentInterval
C7_HotIffPublishedRecently ==
  [][IF micro # <<>> /\ SchedulePoll
     THEN pollState'.currentInterval =
            IF lastPublished.published /\ now - lastPublished.at < CHANGE_WINDOW
            THEN HOT_INTERVAL ELSE COLD_INTERVAL
     ELSE pollState'.currentInterval = pollState.currentInterval]_vars

\* C7 as amended: schedulePoll selects the hot interval exactly when less
\* than 300000 ms have passed since pollState.lastChangeTime (the time of
\* start() or of the latest fingerprint change), the cold interval
\* otherwise, and nothing else changes currentInterval
C7_HotIffChangedRecently ==
  [][IF micro # <<>> /\ SchedulePoll
     THEN pollState'.currentInterval =
            IF now - pollState.lastChangeTime < 300000 THEN 30000 ELSE 300000
     ELSE pollState'.currentInterval = pollState.currentInterval]_vars

\* schedulePoll has selected the cold interval after having selected the hot one
C7_Witness ==
  /\ pollState.currentInterval = 300000
  /\ pollState.changeCount > 0
  /\ \E t \in timers : t.cb = "poll" /\ t.delay = 300000

\* C8: a step that publishes a list adds one to changeCount and sets
\* lastChangeTime to the current time, any other step changes neither
C8_ChangeBookkeeping ==
  [][IF publishes
     THEN /\ pollState'.changeCount = pollState.changeCount + 1
          /\ pollState'.lastChangeTime = now
     ELSE /\ pollState'.changeCount = pollState.changeCount
          /\ pollState'.lastChangeTime = pollState.lastChangeTime]_vars

(***************************************************************************)
(* Properties of the persistent cache                                      *)
(***************************************************************************)
\* a save() is between its call and its return
saving(caller) == saves[caller].pc # "idle"

\* C9: the durable file is never partially written: whenever it exists it
\* holds the complete text of the latest successful save() or of a save()
\* in progress.  The invariant is over every reachable state, so it covers
\* the process dying at any point of save() and every failing file operation.
C9_DurableNeverPartial ==
  durableFile.exists =>
    /\ durableFile.complete
    /\ \/ durableFile.data = lastSaved
       \/ \E caller \in Callers : saving(caller) /\ durableFile.data = saves[caller].data

\* C10: dirty is cleared and lastPersist is reset only by the step that
\* follows a successful write and a successful rename; the catch block
\* leaves dirty, lastPersist and the mapping as they are, adds one to
\* consecutiveFailures and hands control back to save()'s caller
C10_SaveBookkeeping ==
  [][/\ (dirty /\ ~dirty') =>
          \E caller \in Callers : saves[caller].pc = "renamed" /\ ~saving(caller)'
     /\ (lastPersist' # lastPersist) =>
          \E caller \in Callers : saves[caller].pc = "renamed" /\ ~saving(caller)'
     /\ \A caller \in Callers :
          (saves[caller].pc = "catch" /\ saves'[caller].pc # "catch") =>
             /\ dirty' = dirty
             /\ lastPersist' = lastPersist
             /\ consecutiveFailures' = consecutiveFailures + 1
             /\ cache' = cache
             /\ saves'[caller].pc \in {"unlink", "idle"}
             /\ (saves'[caller].pc = "idle" => micro' = afterSave(caller))]_vars

\* a save() has failed after another one had succeeded: the durable file
\* holds the text of the successful save and dirty is still set
C10_Witness ==
  /\ lastSaved # NoData
  /\ consecutiveFailures > 0
  /\ dirty
  /\ lastPersist > 0

\* a step that sends a CACHE_ERROR
reportsCacheError == \E k \in 1..Len(sent') : sent'[k].type = "CACHE_ERROR"

\* C11: a CACHE_ERROR is sent exactly by the catch block of a save() that
\* brings consecutiveFailures to MAX_FAILURES or more, it carries that count,
\* and a successful save() leaves consecutiveFailures at 0
C11_CacheErrorAtThreshold ==
  [][/\ reportsCacheError <=>
          /\ \E caller \in Callers :
                saves[caller].pc = "catch" /\ saves'[caller].pc # "catch"
          /\ consecutiveFailures' = consecutiveFailures + 1
          /\ consecutiveFailures' >= 3
     /\ reportsCacheError =>
          sent' = <<Notification("CACHE_ERROR", [failures |-> consecutiveFailures'])>>
     /\ \A caller \in Callers :
          (saves[caller].pc = "renamed" /\ ~saving(caller)') =>
             consecutiveFailures' = 0]_vars

\* the third consecutive failure has been reported, after two that were not
C11_Witness ==
  /\ consecutiveFailures = 3
  /\ \E k \in 1..Len(sent) : sent[k].type = "CACHE_ERROR"

\* C12: when stop() returns without a persistence failure the durable file
\* holds every entry of the in-memory cache: after the successful save() of
\* stop(), and when stop() finds the cache clean and skips the save
C12_StopFlushes ==
  [][/\ (saves["stop"].pc = "renamed" /\ ~saving("stop")') =>
          /\ durableFile'.exists /\ durableFile'.complete
          /\ serialize(cache') \subseteq durableFile'.data
     /\ (~stopCalled /\ stopCalled' /\ ~dirty /\ cache # <<>>) =>
          /\ durableFile.exists /\ durableFile.complete
          /\ serialize(cache) \subseteq durableFile.data]_vars

\* C13: INIT with a configuration that fails validation sends exactly one
\* CONFIG_ERROR carrying the message of the error, completes (the handler is
\* enabled whenever the event loop is idle), starts no fetch cycle, leaves
\* no timer armed and leaves the stored configuration and the accumulated
\* state as they were
C13_InvalidInit ==
  [][/\ ReceiveInit(CfgBadId) =>
          sent' = <<Notification("CONFIG_ERROR",
                                 "Invalid steamId format. Must be 17-digit Steam ID.")>>
     /\ ReceiveInit(CfgFast) =>
          sent' = <<Notification("CONFIG_ERROR",
                                 "updateInterval must be >= 10000ms to avoid API abuse")>>
     /\ \A payload \in {CfgBadId, CfgFast} :
          /\ micro = <<>> => ENABLED ReceiveInit(payload)
          /\ ReceiveInit(payload) =>
               /\ cycles' = cycles /\ fetchInProgress' = fetchInProgress
               /\ timers' = {} /\ pollInterval' = NoTimer
               /\ config' = config
               /\ errorCount' = errorCount /\ lastFriendsHash' = lastFriendsHash
               /\ pollState' = pollState]_vars

\* a configuration was accepted, schedulePoll has armed a timer, and a later
\* INIT was rejected: the accepted configuration is still stored
C13_Witness ==
  /\ config = CfgDefault
  /\ pollState.currentInterval = HOT_INTERVAL
  /\ \E k \in 1..Len(sent) : sent[k].type = "CONFIG_ERROR"
  /\ timers = {}

\* every variable of the helper is left as it is and nothing is sent
\* (`suspended` records the latest message and is not a variable of the helper)
changesNoState ==
  /\ sent' = <<>>
  /\ UNCHANGED <<now, micro, config, allowlistSet, pollInterval, timers,
                 lastFriendsHash, errorCount, fetchInProgress, pollState,
                 cycles, lastPublished, last, cacheVars, scoreVars>>

\* a step in which fetchFriends passes its guard and fails before its first
\* request: the whole cycle runs within the step
cycleStartsAndFails ==
  /\ cycles' = cycles /\ ~fetchInProgress /\ ~fetchInProgress'
  /\ errorCount' = errorCount + 1
  /\ \E k \in 1..Len(sent') : sent'[k].type = "ERROR"

\* C15: RESUME received while suspended, with no timer pending and a
\* configuration stored, starts exactly one fetch cycle in the same step and
\* the end of that cycle leaves exactly one poll timer pending; RESUME
\* received while a timer is pending or before a configuration was accepted
\* changes no state
C15_ResumeFetchesOnce ==
  [][/\ (suspended /\ timers = {} /\ config # NullConfig /\ ReceiveResume) =>
          \/ Len(cycles') = Len(cycles) + 1
          \/ cycleStartsAndFails /\ micro' = <<"schedulePoll">>
     /\ (cycleEnds /\ cycles[1].then = "schedulePoll") => micro' = <<"schedulePoll">>
     /\ (micro # <<>> /\ SchedulePoll) =>
          /\ Cardinality(timers') = 1
          /\ \A t \in timers' : t.id = pollInterval' /\ t.cb = "poll"
     /\ ((timers # {} \/ config = NullConfig) /\ ReceiveResume) => changesNoState]_vars

\* C15 as amended: RESUME received while the stored timer handle is null
\* and a configuration is stored calls fetchFriends once: with no cycle in
\* flight exactly one cycle starts in the same step (it fails within the
\* step when no API key is configured), and when it ends schedulePoll leaves
\* exactly one poll timer pending; with a cycle in flight none starts and
\* schedulePoll runs at once.  RESUME received while the
\* stored handle is not null or before a configuration was accepted changes
\* no state
C15_ResumeFetchesUnlessInFlight ==
  [][/\ (pollInterval = NoTimer /\ config # NullConfig /\ ReceiveResume) =>
          IF fetchInProgress
          THEN /\ cycles' = cycles /\ errorCount' = errorCount /\ sent' = <<>>
               /\ micro' = <<"schedulePoll">>
          ELSE IF apiKey(config) = ""
          THEN cycleStartsAndFails /\ micro' = <<"schedulePoll">>
          ELSE /\ Len(cycles) = 0 /\ Len(cycles') = 1
               /\ cycles'[1].then = "schedulePoll"
               /\ timers' = timers
     /\ (cycleEnds /\ cycles[1].then = "schedulePoll") => micro' = <<"schedulePoll">>
     /\ (micro # <<>> /\ SchedulePoll) =>
          /\ Cardinality(timers') = 1
          /\ \A t \in timers' : t.id = pollInterval' /\ t.cb = "poll"
     /\ ((pollInterval # NoTimer \/ config = NullConfig) /\ ReceiveResume) =>
          changesNoState]_vars

\* after a SUSPEND a RESUME has started a cycle, that cycle has ended and
\* schedulePoll has armed the one timer
C15_Witness ==
  /\ ~suspended
  /\ pollState.changeCount > 0
  /\ Len(cycles) = 0
  /\ Cardinality(timers) = 1
  /\ \E t \in timers : t.id = pollInterval /\ t.set > 0

batchStarts ==
  /\ enrich'.pc = "batch"
  /\ enrich.pc = "idle" \/ (micro # <<>> /\ Head(micro) = "scoresSettled")

\* the step leaves the cache entry of the activity id as it is
entryUnchanged(gameId) ==
  /\ hasEntry(cache', gameId) = hasEntry(cache, gameId)
  /\ hasEntry(cache, gameId) => valueAt(cache', gameId) = valueAt(cache, gameId)

\* the step leaves gameScore as it is on every record with the activity id
scoresUnchanged(gameId) ==
  /\ Len(enrich'.friends) = Len(enrich.friends)
  /\ \A j \in 1..Len(enrich.friends) :
       enrich.friends[j].gameId = gameId =>
         enrich'.friends[j].gameScore = enrich.friends[j].gameScore

TooManyRequests == [status |-> 429, data |-> NoBody]

\* C16: a lookup that starts while the clock is before the backoff deadline
\* returns null without a request; a 429 sets the deadline to now + 60000,
\* returns null, leaves the cache, errorCount and the dirty flag as they are
\* and sends nothing, and the results loop writes no entry for it
C16_RateLimit ==
  [][/\ (batchStarts /\ now < scoreRateLimitBackoff) =>
          \A k \in 1..Len(enrich'.lookups) :
             /\ enrich'.lookups[k].settled
             /\ enrich'.lookups[k].response = NoResponse
             /\ enrich'.lookups[k].result = NullResult
     /\ \A k \in 1..Len(enrich.lookups) :
          ScoreResponse(k, TooManyRequests) =>
             /\ scoreRateLimitBackoff' = now + 60000
             /\ enrich'.lookups[k].result = NullResult
             /\ cache' = cache /\ dirty' = dirty
             /\ errorCount' = errorCount /\ sent' = <<>>
     /\ (micro # <<>> /\ ScoresSettled) =>
          \A k \in 1..Len(enrich.lookups) :
             (enrich.lookups[k].response.status \in {-1, 429}) =>
                /\ entryUnchanged(enrich.lookups[k].gameId)
                /\ scoresUnchanged(enrich.lookups[k].gameId)]_vars

\* a cycle that started before the deadline set by a 429 of an earlier cycle:
\* its lookup has returned without a request
C16_Witness ==
  /\ enrich.pc = "batch" /\ Len(enrich.lookups) = 1
  /\ lastPublished.published
  /\ now < scoreRateLimitBackoff
  /\ micro = <<"scoresSettled">>
  /\ \A k \in 1..Len(enrich.lookups) :
       enrich.lookups[k].settled /\ enrich.lookups[k].response = NoResponse

C18_InvalidHasNoScore ==
  \A k \in 1..Len(cache) :
     cache[k].value.invalid =>
        cache[k].value.score = Undefined /\ cache[k].value.reviewCount = Undefined

\* an invalid result has replaced an entry that held a score: the record of
\* the cycle still carries the score applied from the replaced entry
C18_Witness ==
  \E j \in 1..Len(enrich.friends) :
     /\ enrich.friends[j].gameScore = 85
     /\ hasEntry(cache, enrich.friends[j].gameId)
     /\ isInvalid(valueAt(cache, enrich.friends[j].gameId))

FewReviews == [status |-> 200, data |-> ReviewBody(TRUE, TRUE, 9, 1, 10)]

\* C19: a response with 10 reviews (minimum 50) makes fetchGameScore return
\* null; the results loop sets gameScore on no record with that activity id
\* and writes no entry for it, and the id is queued again: an id that needs a
\* fetch keeps needing one for as long as its entry is not written
C19_FewReviews ==
  [][/\ \A k \in 1..Len(enrich.lookups) :
          ScoreResponse(k, FewReviews) =>
             /\ enrich'.lookups[k].result = NullResult
             /\ enrich'.friends = enrich.friends
             /\ cache' = cache /\ dirty' = dirty
     /\ (micro # <<>> /\ ScoresSettled) =>
          \A k \in 1..Len(enrich.lookups) :
             enrich.lookups[k].response = FewReviews =>
                /\ entryUnchanged(enrich.lookups[k].gameId)
                /\ scoresUnchanged(enrich.lookups[k].gameId)
                /\ needsFetch(cache', enrich.lookups[k].gameId, now')
     /\ \A gameId \in GameIds :
          (needsFetch(cache, gameId, now) /\ entryUnchanged(gameId)) =>
             needsFetch(cache', gameId, now')
     /\ batchStarts =>
          \A j \in 1..Len(enrich'.friends) :
             needsFetch(cache, enrich'.friends[j].gameId, now) =>
                \E k \in 1..Len(enrich'.lookups) :
                   enrich'.lookups[k].gameId = enrich'.friends[j].gameId]_vars

\* the results loop has run over a response with too few reviews: nothing is
\* cached and no record carries a score
C19_Witness ==
  /\ enrich.pc = "persist"
  /\ cache = <<>> /\ ~dirty
  /\ \E j \in 1..Len(enrich.friends) : enrich.friends[j].gameId = "440"
  /\ \A j \in 1..Len(enrich.friends) : enrich.friends[j].gameScore = Undefined
  /\ scoreRateLimitBackoff = 0

\* lookups that fail otherwise than with a 429 or a 404: no response, an
\* unexpected status, a body that is not an object
FailedLookups ==
  {[status |-> 0, data |-> NoBody], [status |-> 500, data |-> NoBody],
   [status |-> 200, data |-> NoBody]}

\* C20: a lookup that fails otherwise than with a 429 or a 404 returns null
\* and leaves the cache, the dirty flag and the backoff deadline as they are;
\* the results loop writes no entry for it and a batch with nothing but
\* such lookups leaves the cache and the dirty flag as they are
C20_OtherFailures ==
  [][/\ \A k \in 1..Len(enrich.lookups), response \in FailedLookups :
          ScoreResponse(k, response) =>
             /\ enrich'.lookups[k].result = NullResult
             /\ cache' = cache /\ dirty' = dirty
             /\ scoreRateLimitBackoff' = scoreRateLimitBackoff
             /\ errorCount' = errorCount /\ sent' = <<>>
     /\ (micro # <<>> /\ ScoresSettled) =>
          /\ \A k \in 1..Len(enrich.lookups) :
               enrich.lookups[k].response \in FailedLookups =>
                  /\ entryUnchanged(enrich.lookups[k].gameId)
                  /\ scoresUnchanged(enrich.lookups[k].gameId)
          /\ (\A k \in 1..Len(enrich.lookups) :
                 enrich.lookups[k].response \in FailedLookups) =>
               cache' = cache /\ dirty' = dirty]_vars

\* the refresh of a stale entry has failed with status 500 and the results
\* loop has run: the entry is the one cached before
C20_Witness ==
  /\ enrich.pc = "persist"
  /\ now > ttlMs
  /\ \E k \in 1..Len(cache) :
       cache[k].key = "440" /\ cache[k].value.score = 85 /\ cache[k].value.cachedAt = 0
  /\ \E j \in 1..Len(enrich.friends) : enrich.friends[j].gameScore = 85

(***************************************************************************)
(* Properties of the error event                                           *)
(***************************************************************************)
\* a step in which the catch block of fetchFriends runs
cycleFails == errorCount' = errorCount + 1

\* the properties the ERROR payload is built with
ErrorFields == {"context", "message", "timestamp"}

\* C27: a failed cycle sends exactly one ERROR and no FRIENDS_UPDATE, and the
\* payload of the ERROR has the message, the time and, in a property of its
\* own, the count of consecutive failures
C27_ErrorCarriesCount ==
  [][cycleFails =>
       /\ Len(sent') = 1
       /\ sent'[1].type = "ERROR"
       /\ {"message", "timestamp"} \subseteq DOMAIN sent'[1].payload
       /\ sent'[1].payload.timestamp = now
       /\ DOMAIN sent'[1].payload \ ErrorFields # {}]_vars

(***************************************************************************)
(* Properties of the score cache over restarts                             *)
(***************************************************************************)
\* the mapping a cache holds: its keys with their entries
mapping(c) == {<<c[i].key, c[i].value>> : i \in 1..Len(c)}

\* C28: load() into a new cache after a successful save() gives the keys
\* that were saved, each with the fields it had (cachedAt included), and
\* leaves the new cache clean
C28_RoundTrip ==
  [][(StoreLoad /\ ~dirty /\ durableFile.exists /\ durableFile # ForeignFile) =>
       /\ Len(cache') = Len(cache)
       /\ mapping(cache') = mapping(cache)
       /\ ~dirty']_vars

\* a restart has loaded two entries; 570 was set before 440 and is now
\* behind it in the Map
C28_Witness ==
  /\ Len(cache) = 2 /\ ~dirty /\ setCalls = 2
  /\ cache[1].key = "440" /\ cache[2].key = "570"
  /\ cache[1].value.cachedAt > cache[2].value.cachedAt
  /\ cache[2].value.invalid
  /\ lastPersist > cache[1].value.cachedAt
  /\ load(durableFile) = cache

\* C30: isStale is true of an id without entry and of an entry without
\* cachedAt; of an entry with cachedAt it is true exactly when the entry is
\* more than 604800000 ms old: at 604800001 ms it is stale, at 604800000 ms
\* and at 0 ms it is not
C30_Stale ==
  \A gameId \in GameIds :
    IF ~hasEntry(cache, gameId) THEN isStaleAt(cache, gameId, now)
    ELSE LET e == valueAt(cache, gameId)
         IN  IF e.cachedAt = Undefined THEN isStaleAt(cache, gameId, now)
             ELSE /\ isStaleAt(cache, gameId, now) <=> (now - e.cachedAt > 604800000)
                  /\ now - e.cachedAt = 604800001 => isStaleAt(cache, gameId, now)
                  /\ now - e.cachedAt = 604800000 => ~isStaleAt(cache, gameId, now)
                  /\ now = e.cachedAt => ~isStaleAt(cache, gameId, now)

\* one entry is a millisecond over the ttl, the other exactly at it, and a
\* third id has no entry
C30_Witness ==
  /\ hasEntry(cache, "440") /\ hasEntry(cache, "570")
  /\ now - valueAt(cache, "440").cachedAt = ttlMs + 1
  /\ valueAt(cache, "570").cachedAt # Undefined
  /\ now - valueAt(cache, "570").cachedAt = ttlMs
  /\ isStaleAt(cache, "440", now) /\ ~isStaleAt(cache, "570", now)

(***************************************************************************)
(* Properties of the score cache at its capacity                           *)
(***************************************************************************)
keysOf(c) == {c[i].key : i \in 1..Len(c)}

\* C29: the cache never holds more than 1000 entries; set() with a new key
\* on a full cache removes the key inserted earliest and no other, puts the
\* new entry last and leaves the other entries in their order; any other
\* set() removes no key
C29_Eviction ==
  [][/\ Len(cache') <= 1000
     /\ \A gameId \in FillArgs, scoreData \in {ScoreResult, InvalidResult} :
          StoreSet(gameId, scoreData) =>
            IF ~isValidGameId(gameId) THEN cache' = cache
            ELSE /\ hasEntry(cache', gameId)
                 /\ valueAt(cache', gameId) = entryOf(scoreData, now)
                 /\ IF Len(cache) = 1000 /\ gameId \notin keysOf(cache)
                    THEN /\ Len(cache') = 1000
                         /\ keysOf(cache') =
                              (keysOf(cache) \ {cache[1].key}) \cup {gameId}
                         /\ SubSeq(cache', 1, 999) = Tail(cache)
                         /\ cache'[1000].key = gameId
                    ELSE keysOf(cache') = keysOf(cache) \cup {gameId}]_vars

\* the ids "1" to "1001" have been set in this order: 1000 entries are left
\* and "1" is not among them
C29_Witness ==
  /\ Len(cache) = 1000 /\ setCalls = 1
  /\ ~hasEntry(cache, "1")
  /\ cache[1].key = "2" /\ cache[1000].key = "1001"

(***************************************************************************)
(* Properties of the sort                                                  *)
(***************************************************************************)
\* the rank of a presence status: its place in the list, or last
StatusRanks == <<"Online", "Busy", "Away", "Snooze", "Looking to trade",
                 "Looking to play", "Offline">>
rankOf(status) ==
  IF \E r \in 1..Len(StatusRanks) : StatusRanks[r] = status
  THEN CHOOSE r \in 1..Len(StatusRanks) : StatusRanks[r] = status
  ELSE Len(StatusRanks) + 1

\* a comes before b by the secondary key of the configured sort method
beforeByKey(cfg, a, b) ==
  LET aSeen == IF a.lastLogOff = Undefined THEN 0 ELSE a.lastLogOff
      bSeen == IF b.lastLogOff = Undefined THEN 0 ELSE b.lastLogOff
      aUsed == IF a.totalPlaytime = Undefined THEN 0 ELSE a.totalPlaytime
      bUsed == IF b.totalPlaytime = Undefined THEN 0 ELSE b.totalPlaytime
  IN  IF cfg.sortFriends = "recentActivity" /\ aSeen # bSeen THEN aSeen > bSeen
      ELSE IF cfg.sortFriends = "totalPlaytime" /\ aUsed # bUsed THEN aUsed > bUsed
      ELSE NameRank[a.name] < NameRank[b.name]

\* a comes before b in the precedence: in a game first, then the status
\* rank, then the secondary key
before(cfg, a, b) ==
  IF a.inGame # b.inGame THEN a.inGame
  ELSE IF rankOf(a.status) # rankOf(b.status) THEN rankOf(a.status) < rankOf(b.status)
  ELSE beforeByKey(cfg, a, b)

permuted(list, p) == [k \in 1..Len(list) |-> list[p[k]]]

\* C26: no two records with different ids compare equal, and the final list
\* of a cycle and its fingerprint are those of every other order of arrival
C26_TotalOrder ==
  last.outcome = "ok" =>
    /\ \A j, k \in 1..Len(last.list) :
         last.list[j].id # last.list[k].id =>
           compareFriends(config, last.list[j], last.list[k]) # 0
    /\ \A p \in Permutations(1..Len(last.list)) :
         /\ sortFriends(config, permuted(last.list, p)) = last.list
         /\ hashData(sortFriends(config, permuted(last.list, p))) = hashData(last.list)

(***************************************************************************)
(* Properties of the batches of the enrichment                             *)
(***************************************************************************)
\* the playtime cache holds for the friend what it held before the step
usageUnchanged(steamId) ==
  /\ hasPlaytime(playtimeCache'.cache, steamId) = hasPlaytime(playtimeCache.cache, steamId)
  /\ hasPlaytime(playtimeCache.cache, steamId) =>
       valueAt(playtimeCache'.cache, steamId) = valueAt(playtimeCache.cache, steamId)

\* C21: a usage lookup whose request failed (no response, or a status other
\* than 200) is not cached: no step changes the playtime cache entry of its
\* friend, whether there was none or one with a total cached before
C21_FailedUsageNotCached ==
  [][\A k \in 1..Len(playtime.lookups) :
       playtime.lookups[k].response \in PlaytimeFailures =>
         usageUnchanged(playtime.lookups[k].steamId)]_vars

\* the activity ids whose lookups are running or still to run, in their order
pending(e) == [k \in 1..Len(e.lookups) |-> e.lookups[k].gameId] \o e.queue

noRepeat(s) == \A j, k \in 1..Len(s) : j # k => s[j] # s[k]

\* a result that carries a score to apply
carriesScore(result) ==
  ~result.null /\ ~result.invalid /\ result.score # Undefined

\* C22: the activity ids to look up in a cycle are pairwise distinct and each
\* is looked up in one batch only (an enrichment starts once per cycle, and
\* the ids left after a batch are the ids that were queued behind it); when
\* a batch has settled, a result that carries a score is on every record
\* with the activity id and any other result changes no record's score;
\* records with the same activity id have the same gameScore in every
\* published list
C22_OneLookupPerActivity ==
  [][/\ noRepeat(pending(enrich'))
     /\ (enrich.pc = "idle" /\ enrich'.pc # "idle") =>
          \E i \in 1..Len(cycles) :
             /\ cycles[i].pc \in {"summaries", "playtime"}
             /\ cycles'[i].pc = "enrich"
     /\ (enrich.pc # "idle" /\ enrich'.pc # "idle") =>
          \/ pending(enrich') = pending(enrich)
          \/ pending(enrich') = enrich.queue
     /\ (micro # <<>> /\ Head(micro) = "scoresSettled") =>
          \A k \in 1..Len(enrich.lookups) :
             IF carriesScore(enrich.lookups[k].result)
             THEN \A j \in 1..Len(enrich'.friends) :
                    enrich'.friends[j].gameId = enrich.lookups[k].gameId =>
                      enrich'.friends[j].gameScore = enrich.lookups[k].result.score
             ELSE scoresUnchanged(enrich.lookups[k].gameId)
     /\ \A j, k \in 1..Len(lastPublished'.list) :
          (/\ lastPublished'.list[j].gameId # Null
           /\ lastPublished'.list[j].gameId = lastPublished'.list[k].gameId) =>
            lastPublished'.list[j].gameScore = lastPublished'.list[k].gameScore]_vars

\* two friends who play the same activity, which had no cache entry, are
\* published with the score of the activity's one lookup
C22_Witness ==
  /\ lastPublished.published
  /\ \E j, k \in 1..Len(lastPublished.list) :
       /\ j # k
       /\ lastPublished.list[j].gameId = "1"
       /\ lastPublished.list[k].gameId = "1"
       /\ lastPublished.list[j].gameScore = 85
       /\ lastPublished.list[k].gameScore = 85
       /\ hasEntry(cache, "1")

\* the number of lookups whose request has not come back
inFlight(lookups) == Cardinality({k \in 1..Len(lookups) : ~lookups[k].settled})

\* the step starts a lookup for an id that had none running
scoreLookupStarts ==
  \E k \in 1..Len(enrich'.lookups) :
     \A j \in 1..Len(enrich.lookups) :
        enrich.lookups[j].gameId # enrich'.lookups[k].gameId
usageLookupStarts ==
  \E k \in 1..Len(playtime'.lookups) :
     \A j \in 1..Len(playtime.lookups) :
        playtime.lookups[j].steamId # playtime'.lookups[k].steamId

\* C23: at most 5 score lookups and at most 3 usage lookups are in flight;
\* a step that starts a lookup finds every lookup of the batch before
\* settled, and after it the cache holds what that batch returned (for a
\* score lookup, unless it returned null)
C23_BatchesInTurn ==
  [][/\ inFlight(enrich'.lookups) <= 5
     /\ inFlight(playtime'.lookups) <= 3
     /\ scoreLookupStarts =>
          /\ allSettled(enrich.lookups)
          /\ \A j \in 1..Len(enrich.lookups) :
               ~enrich.lookups[j].result.null =>
                 /\ hasEntry(cache', enrich.lookups[j].gameId)
                 /\ valueAt(cache', enrich.lookups[j].gameId)
                      = entryOf(enrich.lookups[j].result, now)
     /\ usageLookupStarts =>
          /\ allSettled(playtime.lookups)
          /\ \A j \in 1..Len(playtime.lookups) :
               /\ hasPlaytime(playtimeCache'.cache, playtime.lookups[j].steamId)
               /\ valueAt(playtimeCache'.cache, playtime.lookups[j].steamId)
                    = playtimeEntryOf(playtime.lookups[j].result, now)]_vars

\* a second batch of score lookups is in flight and the cache holds an entry
\* written in this cycle for each of the 5 lookups of the first batch
C23_Witness ==
  /\ enrich.pc = "batch"
  /\ inFlight(enrich.lookups) > 0
  /\ Cardinality({j \in 1..Len(cache) : cache[j].value.cachedAt = now})
       = SCORE_CONCURRENT_REQUESTS

\* a score request and a usage request that failed: no response, or a status
\* that is neither 200 nor one the code handles on its own (429, 404)
failedScore(l) == l.settled /\ l.response \in FailedLookups
failedUsage(l) == l.settled /\ l.response \in PlaytimeFailures

\* some lookup of the running batches has failed
lookupFailed ==
  \/ \E k \in 1..Len(enrich.lookups) : failedScore(enrich.lookups[k])
  \/ \E k \in 1..Len(playtime.lookups) : failedUsage(playtime.lookups[k])

\* a failing request settles its own lookup only, sends nothing and leaves
\* errorCount and the cycle as they are
failureSettlesOneLookup ==
  /\ \A k \in 1..Len(enrich.lookups), response \in FailedLookups :
       ScoreResponse(k, response) =>
          /\ \A j \in 1..Len(enrich.lookups) :
               j # k => enrich'.lookups[j] = enrich.lookups[j]
          /\ enrich'.queue = enrich.queue
          /\ cycles' = cycles /\ errorCount' = errorCount /\ sent' = <<>>
  /\ \A k \in 1..Len(playtime.lookups), response \in PlaytimeFailures :
       PlaytimeResponse(k, response) =>
          /\ \A j \in 1..Len(playtime.lookups) :
               j # k => playtime'.lookups[j] = playtime.lookups[j]
          /\ playtime'.queue = playtime.queue
          /\ cycles' = cycles /\ errorCount' = errorCount /\ sent' = <<>>

\* when a batch with a failed lookup has settled, the results of its other
\* lookups are written, the next batch starts if there is one, and no ERROR
\* is sent; the cycle ends at the change gate with errorCount 0
failureAbortsNothing ==
  /\ (lookupFailed /\ micro # <<>> /\ Head(micro) = "scoresSettled") =>
       /\ \A j \in 1..Len(enrich.lookups) :
            ~enrich.lookups[j].result.null =>
              /\ hasEntry(cache', enrich.lookups[j].gameId)
              /\ valueAt(cache', enrich.lookups[j].gameId)
                   = entryOf(enrich.lookups[j].result, now)
       /\ enrich.queue # <<>> =>
            /\ enrich'.pc = "batch"
            /\ pending(enrich') = enrich.queue
       /\ cycles' = cycles /\ errorCount' = errorCount /\ sent' = <<>>
  /\ (lookupFailed /\ micro # <<>> /\ Head(micro) = "playtimeSettled") =>
       /\ \A j \in 1..Len(playtime.lookups) :
            ~failedUsage(playtime.lookups[j]) =>
              /\ hasPlaytime(playtimeCache'.cache, playtime.lookups[j].steamId)
              /\ valueAt(playtimeCache'.cache, playtime.lookups[j].steamId)
                   = playtimeEntryOf(playtime.lookups[j].result, now)
       /\ playtime.queue # <<>> =>
            /\ playtime'.pc = "batch"
            /\ [k \in 1..Len(playtime'.lookups) |->
                  [index |-> playtime'.lookups[k].index,
                   steamId |-> playtime'.lookups[k].steamId]] \o playtime'.queue
                 = playtime.queue
       /\ cycles' = cycles /\ errorCount' = errorCount /\ sent' = <<>>
  /\ \A i \in 1..Len(cycles) :
       cycles[i].pc \in {"enrich", "playtime"} =>
          /\ \A n \in 1..Len(sent') : sent'[n].type # "ERROR"
          /\ errorCount' <= errorCount
          /\ Len(cycles') < Len(cycles) =>
               /\ last'.outcome = "ok"
               /\ errorCount' = 0
               /\ lastFriendsHash' = hashData(last'.list)

\* the results loop gives the activity id of a failed score lookup nothing
failedScoreNoData ==
  (micro # <<>> /\ Head(micro) = "scoresSettled") =>
     \A k \in 1..Len(enrich.lookups) :
        failedScore(enrich.lookups[k]) =>
           /\ entryUnchanged(enrich.lookups[k].gameId)
           /\ scoresUnchanged(enrich.lookups[k].gameId)

\* the results loop gives the friend of a failed usage lookup nothing
failedUsageNoData ==
  (micro # <<>> /\ Head(micro) = "playtimeSettled") =>
     \A k \in 1..Len(playtime.lookups) :
        failedUsage(playtime.lookups[k]) =>
           /\ usageUnchanged(playtime.lookups[k].steamId)
           /\ playtime'.friends[playtime.lookups[k].index].totalPlaytime
                = playtime.friends[playtime.lookups[k].index].totalPlaytime

\* C24: a failed score or usage lookup aborts neither its batch nor the
\* cycle (the other lookups of the batch and the later batches are
\* processed, the cycle ends at the change gate with errorCount 0 and
\* without ERROR), and the failed id receives no new data
C24_FailureIsLocal ==
  [][/\ failureSettlesOneLookup
     /\ failureAbortsNothing
     /\ failedScoreNoData
     /\ failedUsageNoData]_vars

(***************************************************************************)
(* Properties of maybePersist                                              *)
(***************************************************************************)
\* the step leaves the cache, its bookkeeping, the saves and the files alone
cacheUntouched ==
  /\ cache' = cache /\ dirty' = dirty /\ lastPersist' = lastPersist
  /\ consecutiveFailures' = consecutiveFailures /\ saves' = saves
  /\ tempFile' = tempFile /\ durableFile' = durableFile
  /\ lastSaved' = lastSaved

\* C31: maybePersist starts a save of the mapping exactly when the cache is
\* dirty and 5 minutes or more have passed since lastPersist; otherwise it
\* leaves the cache, the files and everything else as they are.  lastPersist
\* is the time of construction until a save has succeeded, and then the
\* time at which the last save succeeded
C31_MaybePersist ==
  [][/\ MaybePersist =>
          IF dirty /\ now - lastPersist >= 300000
          THEN /\ saves'["cycle"] = [pc |-> "open", data |-> serialize(cache),
                                     fd |-> "none"]
               /\ cache' = cache /\ dirty' = dirty /\ lastPersist' = lastPersist
          ELSE cacheUntouched /\ UNCHANGED <<now, micro, schedVars, scoreVars>>
     /\ lastPersist' # lastPersist =>
          /\ \E caller \in Callers : saves[caller].pc = "renamed"
          /\ lastPersist' = now]_vars

\* maybePersist has started a save 5 minutes after the construction
C31_Witness ==
  /\ saves["cycle"].pc = "open"
  /\ dirty
  /\ now - lastPersist = persistIntervalMs

(***************************************************************************)
(* Properties of reconfiguration                                           *)
(***************************************************************************)
\* the pollState start() builds, at the time t
initialPollState(t) ==
  [baseInterval |-> BASE_INTERVAL, currentInterval |-> BASE_INTERVAL,
   lastChangeTime |-> t, changeCount |-> 0]

\* the step handles an INIT whose payload passes validateConfig
acceptsInit ==
  \E payload \in InitPayloads : validateConfig(payload) /\ ReceiveInit(payload)

\* C33: an INIT that is accepted leaves pollState at its initial values
\* (change count 0, last change now, current interval the base interval),
\* and no other step takes the change count or the last change time back
C33_InitResetsPollState ==
  [][/\ acceptsInit => pollState' = initialPollState(now)
     /\ ~acceptsInit =>
          /\ pollState'.changeCount >= pollState.changeCount
          /\ pollState'.lastChangeTime >= pollState.lastChangeTime
          /\ pollState'.baseInterval = pollState.baseInterval]_vars

(***************************************************************************)
(* Properties of the poll timer                                            *)
(***************************************************************************)
\* C36: at most one poll timer is pending, and it is the one whose handle
\* this.pollInterval holds
C36_OneTimer ==
  /\ Cardinality(timers) <= 1
  /\ \A t \in timers : t.id = pollInterval

\* the catch block has armed the fallback timer in place of the poll timer
\* that was pending while the failed cycle ran
C36_Witness ==
  /\ Cardinality(timers) = 1
  /\ \E t \in timers : t.cb = "fallback" /\ t.id = pollInterval

(***************************************************************************)
(* Properties of the setup mode                                            *)
(***************************************************************************)
\* the stored configuration is one of setup mode without API key or steam id
setupIncomplete(cfg) ==
  cfg # NullConfig /\ cfg.setup /\ (cfg.steamApiKey = "" \/ cfg.steamId = "")

\* C40: from an INIT in setup mode without API key or steam id until the
\* next accepted INIT, with no cycle of an earlier configuration in flight,
\* no step (SUSPEND and RESUME included) starts a fetch cycle, arms a
\* timer or sends an ERROR
C40_SetupStaysIdle ==
  [][(setupIncomplete(config') /\ cycles = <<>> /\ micro = <<>>) =>
        /\ cycles' = <<>>
        /\ ~fetchInProgress'
        /\ errorCount' = errorCount
        /\ timers' \subseteq timers
        /\ \A k \in 1..Len(sent') : sent'[k].type # "ERROR"]_vars

(***************************************************************************)
(* Properties of the dirty flag                                            *)
(***************************************************************************)
\* the mapping the file at cachePath holds; no file holds no mapping
durableMapping == IF durableFile.exists THEN durableFile.data ELSE {}

\* C37: while the helper is alive, the dirty flag is false and no save()
\* is in progress, the file at cachePath is complete and holds the mapping
\* that is in memory
C37_CleanMeansPersisted ==
  (alive /\ ~dirty /\ \A caller \in Callers : ~saving(caller)) =>
     /\ durableFile.exists => durableFile.complete
     /\ durableMapping = serialize(cache)

\* the accepted configuration that has this API key
configOf(key) == CHOOSE payload \in ReconfPayloads : apiKey(payload) = key

\* the steam ids of the records of a list
idsOf(list) == {list[k].id : k \in 1..Len(list)}

\* C38: when INIT arrives between cycles only, a list published by a cycle
\* holds only friends of the allowlist of the stored configuration, also
\* when an earlier INIT had another allowlist
C38_NewAllowlistApplies ==
  [][\A i \in 1..Len(cycles) :
       (/\ cycles[i].key = apiKey(config)
        /\ Len(config.friendAllowlist) > 0
        /\ publishes) =>
         idsOf(lastPublished'.list) \subseteq Range(config.friendAllowlist)]_vars

\* C39: the list a cycle ends with is in the order of the sort method of
\* the configuration the cycle started under, whatever INIT arrived while
\* it ran
C39_OneConfigurationPerCycle ==
  [][\A i \in 1..Len(cycles) :
       (cycleEnds /\ last'.outcome = "ok") =>
          last'.list = sortFriends(configOf(cycles[i].key), last'.list)]_vars

\* enrichWithScores starts: the step from the summaries to the first batch
enrichStarts == enrich.pc = "idle" /\ enrich'.pc # "idle"

\* what the cache holds for an activity id when the enrichment starts
cachedFor(gameId) == valueAt(cache, gameId)

\* older than the ttl, or without a time
staleFor(gameId) ==
  cachedFor(gameId).cachedAt = Undefined \/ now - cachedFor(gameId).cachedAt > ttlMs

\* more than 1000 reviews and less than 30 days old
popularFor(gameId) ==
  /\ cachedFor(gameId).reviewCount > 1000
  /\ cachedFor(gameId).cachedAt # Undefined
  /\ (now - cachedFor(gameId).cachedAt) \div 1000 < 30 * 24 * 60 * 60

\* the activity ids the enrichment has queued, the first batch included
queuedIds ==
  {enrich'.lookups[k].gameId : k \in 1..Len(enrich'.lookups)} \cup Range(enrich'.queue)

loadFindsNothing ==
  \/ \E payload \in {CfgScores} : ReceiveInitScores(payload) /\ ~durableFile.exists
  \/ ReadFileSettles(FALSE)
  \/ ReadFileSettles(TRUE) /\ ~durableFile.complete

\* load() returns to the INIT handler
loadReturnsNormally == loading' = NoLoad /\ micro' = <<"loadReturns">>

\* the INIT handler goes on to fetchFriends: a cycle is in flight
initProceeds == fetchInProgress' /\ cycles' # <<>>

readFails ==
  \/ ReadFileSettles(FALSE)
  \/ ReadFileSettles(TRUE) /\ ~durableFile.complete

Completes ==
  \E i \in 1..Len(cycles) :
    \/ \E ids \in FriendListResponses : FriendListArrives(i, ids)
    \/ SummariesFail(i)
    \/ SummariesArrive(i, <<PlayerA, PlayerB>>)

\* the INITs of a display that is never suspended
LivePayloads == {CfgDefault, CfgBadId}

\* the display sends its configuration until one is accepted, and a
\* configuration that is rejected at any time
ReceiveInitLive(payload) ==
  /\ config = NullConfig \/ validationError(payload) # ""
  /\ ReceiveInit(payload)

\* time passes while a timer waits for its expiry: the requests of a cycle
\* are answered within the tick of the clock in which they were made
LiveTick ==
  /\ cycles = <<>>
  /\ \E t \in timers : now < t.set + t.delay
  /\ Tick

NextLive ==
  \/ LiveTick
  \/ \E payload \in LivePayloads : ReceiveInitLive(payload)
  \/ \E t \in timers : TimerFires(t)
  \/ SchedulePoll
  \/ Completes

\* the scheduler where every request is answered, every continuation runs,
\* time passes and a timer that has expired fires.  A continuation runs in
\* the turn of the event loop that queued it, so an answer waits for the end
\* of that turn only, however many turns there are: it is strongly fair
SpecLive ==
  /\ Init /\ [][NextLive]_vars
  /\ WF_vars(SchedulePoll)
  /\ SF_vars(Completes)
  /\ WF_vars(LiveTick)
  /\ WF_vars(\E t \in timers : TimerFires(t))

\* a cycle is in flight, a timer is pending or a continuation is about to
\* run schedulePoll
pollingOn == fetchInProgress \/ timers # {} \/ micro # <<>>

\* an INIT that is rejected or that leaves the helper in setup mode
initStops ==
  \E payload \in LivePayloads :
    /\ ReceiveInit(payload)
    /\ validationError(payload) # "" \/ setupIncomplete(payload)

====
